---- MODULE Spec2Model ----
(***************************************************************************)
(* State-machine model of api-explorer: the App schema loader (App.tsx),   *)
(* the request executor (services/executor), the encrypted credential      *)
(* vault (services/cryptoVault.ts), the credential service                 *)
(* (services/credentials.ts) and the in-memory database (db/database) with *)
(* its bookmarks and usage history, and the pure functions of              *)
(* services/openapi.ts and of the executor's request builders.  Each       *)
(* subsystem has its own specification over the shared variable tuple.     *)
(***************************************************************************)
EXTENDS Integers, Sequences, FiniteSets, TLC

\* ------------------------------------------------------------------------
\* Bounds
\* ------------------------------------------------------------------------
MaxLoads == 3
MaxClock == 2
MaxStored == 2
MaxCredentials == 2
MaxBookmarks == 2
MaxUsage == 2
MaxRecords == 2
MaxPaths == 2
MaxParams == 2

\* ------------------------------------------------------------------------
\* Shared value vocabulary
\* ------------------------------------------------------------------------
\* JavaScript undefined / null, as values a field may hold
Undefined == "<undefined>"
Null == "<null>"
\* Date.now() when the session starts: a positive number of milliseconds
Epoch == 1

VARIABLES
    \* ---- App.tsx / stores/appStore ----
    schema,               \* appStore.schema: Null or a ParsedSchema
    operations,           \* appStore.operations
    filteredOperations,   \* appStore.filteredOperations
    selectedOperation,    \* appStore.selectedOperation
    isLoading,            \* appStore.isLoading
    error,                \* appStore.error
    currentSchemaEntry,   \* useState currentSchemaEntry (title or Null)
    selectedInstance,     \* useState selectedInstance (id or Null)
    loadingProgress,      \* useState loadingProgress
    abortControllerRef,   \* abortControllerRef.current: 0 = null, else controller id
    abortedControllers,   \* controllers whose signal.aborted is true
    mounted,              \* the App component is mounted
    load,                 \* the asynchronous load invocations and their position
    \* ---- services/executor ----
    exec,                 \* the executeRequest / executeOperation call and its position
    now,                  \* Date.now(), in milliseconds
    observed,             \* error texts callers received, by what aborted the call
    \* ---- services/cryptoVault.ts ----
    credentialCache,      \* the in-memory Map of decrypted credentials
    vaultStore,           \* the IndexedDB object store 'credentials', keyed by id
    vault,                \* the vault calls in flight and their position
    crypto,               \* one encrypt / decrypt round trip
    \* ---- services/credentials.ts and db/database ----
    credentialsStore,     \* database credentialsStore: Map id -> Credential
    SECRET_STORE,         \* credentials.ts SECRET_STORE: Map id -> secret
    creds,                \* the credential-service calls and their position
    bookmarksStore,       \* database bookmarksStore: Map id -> Bookmark
    bookmarkCalls,        \* the bookmark calls and what they returned
    historyStore,         \* database historyStore: Map id -> UsageRecord
    historyCalls,         \* the usage-history calls and what they returned
    \* ---- services/openapi.ts ----
    openapi,              \* the document given to loadSchema and what the calls returned
    \* ---- services/executor: buildRequestUrl / buildHeaders ----
    builder               \* the arguments given to a builder and what it returned

appVars == <<schema, operations, filteredOperations, selectedOperation, isLoading,
             error, currentSchemaEntry, selectedInstance, loadingProgress,
             abortControllerRef, abortedControllers, mounted, load>>

execVars == <<exec, now, observed>>

vaultVars == <<credentialCache, vaultStore, vault>>

credsVars == <<credentialsStore, SECRET_STORE, creds>>

bookmarkVars == <<bookmarksStore, bookmarkCalls>>

historyVars == <<historyStore, historyCalls>>

vars == <<appVars, execVars, vaultVars, crypto, credsVars, bookmarkVars, historyVars,
          openapi, builder>>

\* What the actions of one subsystem leave alone
notApp == <<execVars, vaultVars, crypto, credsVars, bookmarkVars, historyVars, openapi, builder>>
notExec == <<appVars, vaultVars, crypto, credsVars, bookmarkVars, historyVars, openapi, builder>>
notVault == <<appVars, exec, observed, crypto, credsVars, bookmarkVars, historyVars, openapi, builder>>
notCrypto == <<appVars, execVars, vaultVars, credsVars, bookmarkVars, historyVars, openapi, builder>>
notCreds == <<appVars, exec, observed, vaultVars, crypto, bookmarkVars, historyVars, openapi, builder>>
notBookmarks == <<appVars, exec, observed, vaultVars, crypto, credsVars, historyVars, openapi, builder>>
notOpenapi == <<appVars, execVars, vaultVars, crypto, credsVars, bookmarkVars, historyVars,
                builder>>
notBuilder == <<appVars, execVars, vaultVars, crypto, credsVars, bookmarkVars, historyVars,
                openapi>>
notHistory == <<appVars, exec, observed, vaultVars, crypto, credsVars, bookmarkVars, openapi, builder>>

\* ========================================================================
\* App.tsx: schema loading
\* ========================================================================
Loads == 1..MaxLoads

\* Registry entries (schemaRegistry.ts SchemaRegistryEntry), by title
RegistryEntry(t, ex) == [title |-> t, example |-> ex]

\* The registries loadSchemaRegistry may deliver
FullRegistry == <<RegistryEntry("Example", TRUE), RegistryEntry("A", FALSE),
                  RegistryEntry("B", FALSE)>>
EmptyRegistry == <<RegistryEntry("Example", TRUE)>>
Registries == {FullRegistry, EmptyRegistry}

\* Titles a user may ask handleLoadSchema for
RequestTitles == {"A", "B", "Z"}

\* Operations each schema document yields
OperationsOf(title) ==
    IF title = "A" THEN {"A_getItems", "A_postItems"} ELSE {title \o "_getIndex"}

\* The ParsedSchema that loading the entry's document produces
ParsedSchemaOf(title) == [title |-> title, operations |-> OperationsOf(title)]

\* schemaRegistry.ts getAvailableSchemas: the non-example entries, in order
getAvailableSchemas(registry) == SelectSeq(registry, LAMBDA e : ~e.example)

\* schemaRegistry.ts getDefaultSchema: first non-example entry, or Undefined
getDefaultSchema(registry) ==
    IF Len(getAvailableSchemas(registry)) = 0 THEN Undefined
    ELSE getAvailableSchemas(registry)[1].title

\* schemaRegistry.ts findSchemaByTitle: first entry with that title that is
\* not an example, or Undefined
findSchemaByTitle(registry, title) ==
    LET hits == SelectSeq(registry, LAMBDA e : e.title = title /\ ~e.example)
    IN IF Len(hits) = 0 THEN Undefined ELSE hits[1].title

IdleLoad == [pc |-> "idle", kind |-> "none", entry |-> Null, ctl |-> 0, outcome |-> "none"]

\* The finally block of loadRegistryAndDefaultSchema / handleLoadSchema
Finally(t, outcome) ==
    /\ isLoading' = FALSE
    /\ loadingProgress' = ""
    /\ load' = [load EXCEPT ![t].pc = "done", ![t].outcome = outcome]

\* App.tsx loadSchemaEntry up to its await: cancel the previous controller,
\* install a new one, record the entry, call loadSchemaFromRegistry
LoadSchemaEntryStart(t, entry) ==
    /\ abortedControllers' =
         IF abortControllerRef # 0 THEN abortedControllers \cup {abortControllerRef}
         ELSE abortedControllers
    /\ abortControllerRef' = load[t].ctl
    /\ currentSchemaEntry' = entry
    /\ selectedInstance' = Null
    /\ loadingProgress' = "Loading " \o entry \o " schema..."
    /\ load' = [load EXCEPT ![t].pc = "schema", ![t].entry = entry]

\* The test loadSchemaEntry makes after its await (App.tsx line 157)
SupersededCheck(t) == abortControllerRef \in abortedControllers

\* mount effect / "Try Again": loadRegistryAndDefaultSchema up to its first await
LoadRegistryAndDefaultSchema(t) ==
    /\ mounted
    /\ load[t].pc = "idle"
    /\ isLoading' = TRUE
    /\ loadingProgress' = "Loading schema registry..."
    /\ error' = Null
    /\ load' = [load EXCEPT ![t].pc = "registry", ![t].kind = "default", ![t].ctl = t]
    /\ UNCHANGED <<schema, operations, filteredOperations, selectedOperation,
                   currentSchemaEntry, selectedInstance, abortControllerRef,
                   abortedControllers, mounted>>
    /\ UNCHANGED notApp

\* Toolbar onLoadSchema: handleLoadSchema up to its first await
HandleLoadSchema(t, schemaTitle) ==
    /\ mounted
    /\ load[t].pc = "idle"
    /\ IF isLoading /\ currentSchemaEntry = schemaTitle
       THEN /\ load' = [load EXCEPT ![t].pc = "done", ![t].kind = "handle",
                                    ![t].outcome = "ignored"]
            /\ UNCHANGED <<isLoading, loadingProgress, error>>
       ELSE /\ isLoading' = TRUE
            /\ loadingProgress' = "Loading " \o schemaTitle \o "..."
            /\ error' = Null
            /\ load' = [load EXCEPT ![t].pc = "registry", ![t].kind = "handle",
                                    ![t].entry = schemaTitle, ![t].ctl = t]
    /\ UNCHANGED <<schema, operations, filteredOperations, selectedOperation,
                   currentSchemaEntry, selectedInstance, abortControllerRef,
                   abortedControllers, mounted>>
    /\ UNCHANGED notApp

\* loadSchemaRegistry rejects: catch sets the error, finally clears isLoading
RegistryFails(t) ==
    /\ load[t].pc = "registry"
    /\ error' = "Failed to load schema registry"
    /\ Finally(t, "failed")
    /\ UNCHANGED <<schema, operations, filteredOperations, selectedOperation,
                   currentSchemaEntry, selectedInstance, abortControllerRef,
                   abortedControllers, mounted>>
    /\ UNCHANGED notApp

\* loadSchemaRegistry resolves; the caller picks the entry and runs
\* loadSchemaEntry up to its await
RegistryLoaded(t, registry) ==
    /\ load[t].pc = "registry"
    /\ LET entry == IF load[t].kind = "default" THEN getDefaultSchema(registry)
                    ELSE findSchemaByTitle(registry, load[t].entry)
       IN IF entry = Undefined
          THEN /\ error' = IF load[t].kind = "default"
                           THEN "No schemas available in registry"
                           ELSE "Schema not found in registry"
               /\ Finally(t, "failed")
               /\ UNCHANGED <<currentSchemaEntry, selectedInstance,
                              abortControllerRef, abortedControllers>>
          ELSE /\ LoadSchemaEntryStart(t, entry)
               /\ UNCHANGED <<error, isLoading>>
    /\ UNCHANGED <<schema, operations, filteredOperations, selectedOperation, mounted>>
    /\ UNCHANGED notApp

\* loadSchemaFromRegistry resolves with the entry's ParsedSchema
SchemaLoaded(t) ==
    /\ load[t].pc = "schema"
    /\ IF SupersededCheck(t)
       THEN /\ UNCHANGED <<schema, operations, filteredOperations>>
            /\ Finally(t, "skipped")
       ELSE /\ schema' = ParsedSchemaOf(load[t].entry)
            /\ operations' = ParsedSchemaOf(load[t].entry).operations
            /\ filteredOperations' = ParsedSchemaOf(load[t].entry).operations
            /\ Finally(t, "written")
    /\ selectedOperation' = IF load[t].kind = "handle" THEN Null ELSE selectedOperation
    /\ UNCHANGED <<error, currentSchemaEntry, selectedInstance, abortControllerRef,
                   abortedControllers, mounted>>
    /\ UNCHANGED notApp

\* A variant of the failure path that empties the operation lists
SchemaFails_DropsOperations(t) ==
    /\ load[t].pc = "schema"
    /\ error' = "Failed to load schema"
    /\ operations' = {}
    /\ filteredOperations' = {}
    /\ Finally(t, "failed")
    /\ UNCHANGED <<schema, selectedOperation, currentSchemaEntry, selectedInstance,
                   abortControllerRef, abortedControllers, mounted>>
    /\ UNCHANGED notApp

\* loadSchemaFromRegistry rejects (fetch, parse or dereference error): the
\* error is rethrown, the caller's catch sets the error indicator
SchemaFails(t) ==
    /\ load[t].pc = "schema"
    /\ error' = "Failed to load schema"
    /\ Finally(t, "failed")
    /\ UNCHANGED <<schema, operations, filteredOperations, selectedOperation,
                   currentSchemaEntry, selectedInstance, abortControllerRef,
                   abortedControllers, mounted>>
    /\ UNCHANGED notApp

\* Sidebar onSelectOperation
SelectOperation(op) ==
    /\ mounted
    /\ op \in filteredOperations
    /\ selectedOperation # op
    /\ selectedOperation' = op
    /\ UNCHANGED <<schema, operations, filteredOperations, isLoading, error,
                   currentSchemaEntry, selectedInstance, loadingProgress,
                   abortControllerRef, abortedControllers, mounted, load>>
    /\ UNCHANGED notApp

\* Toolbar onSelectInstance: handleSelectInstance
HandleSelectInstance(instance) ==
    /\ mounted
    /\ selectedInstance # instance
    /\ selectedInstance' = instance
    /\ UNCHANGED <<schema, operations, filteredOperations, selectedOperation, isLoading,
                   error, currentSchemaEntry, loadingProgress, abortControllerRef,
                   abortedControllers, mounted, load>>
    /\ UNCHANGED notApp

\* unmount cleanup effect: abort the current controller
Unmount ==
    /\ mounted
    /\ mounted' = FALSE
    /\ abortedControllers' =
         IF abortControllerRef # 0 THEN abortedControllers \cup {abortControllerRef}
         ELSE abortedControllers
    /\ UNCHANGED <<schema, operations, filteredOperations, selectedOperation, isLoading,
                   error, currentSchemaEntry, selectedInstance, loadingProgress,
                   abortControllerRef, load>>
    /\ UNCHANGED notApp



AppInit ==
    /\ schema = Null
    /\ operations = {}
    /\ filteredOperations = {}
    /\ selectedOperation = Null
    /\ isLoading = FALSE
    /\ error = Null
    /\ currentSchemaEntry = Null
    /\ selectedInstance = Null
    /\ loadingProgress = ""
    /\ abortControllerRef = 0
    /\ abortedControllers = {}
    /\ mounted = TRUE
    /\ load = [t \in Loads |-> IdleLoad]

AppNext ==
    \/ \E t \in Loads : LoadRegistryAndDefaultSchema(t)
    \/ \E t \in Loads, title \in RequestTitles : HandleLoadSchema(t, title)
    \/ \E t \in Loads : RegistryFails(t)
    \/ \E t \in Loads, registry \in Registries : RegistryLoaded(t, registry)
    \/ \E t \in Loads : SchemaLoaded(t)
    \/ \E t \in Loads : SchemaFails(t)
    \/ \E op \in OperationsOf("A") \cup OperationsOf("B") : SelectOperation(op)
    \/ \E i \in {"cred_1"} : HandleSelectInstance(i)
    \/ Unmount


\* ========================================================================
\* services/executor: buildHeaders, executeRequest, executeOperation
\* ========================================================================
\* String.prototype.includes
Includes(s, needle) ==
    \E i \in 1..(Len(s) - Len(needle) + 1) : SubSeq(s, i, i + Len(needle) - 1) = needle

\* String.prototype.trim() === '' : only blanks
IsBlank(s) == \A i \in 1..Len(s) : SubSeq(s, i, i) = " "

\* new URL(u) without a base parses only a string that starts with a scheme
UrlParses(u) ==
    \E i \in 2..Len(u) :
        /\ SubSeq(u, i, i) = ":"
        /\ \A j \in 1..(i - 1) : SubSeq(u, j, j) \notin {"/", "?", "#", ":", " "}

\* A JavaScript object as a function from its own keys; o[k] of a missing key
EmptyObject == [k \in {} |-> Undefined]
Get(o, k) == IF k \in DOMAIN o THEN o[k] ELSE Undefined
\* o[k] = v
Put(o, k, v) == [x \in DOMAIN o \cup {k} |-> IF x = k THEN v ELSE o[x]]
\* Object.assign(target, source)
ObjectAssign(target, source) ==
    [x \in DOMAIN target \cup DOMAIN source |->
        IF x \in DOMAIN source THEN source[x] ELSE target[x]]

\* The JavaScript values 0 and false, as values a request body may be
JsZero == "<0>"
JsFalse == "<false>"

\* JavaScript truthiness of the values the model passes around
Falsy(v) == v \in {Undefined, Null, "", JsZero, JsFalse}

\* executor buildRequestUrl, lines 127-131: the join of base and resolved path
JoinBaseAndPath(baseUrl, resolvedPath) ==
    LET normalizedBase ==
            IF Len(baseUrl) > 0 /\ SubSeq(baseUrl, Len(baseUrl), Len(baseUrl)) = "/"
            THEN SubSeq(baseUrl, 1, Len(baseUrl) - 1) ELSE baseUrl
        normalizedPath ==
            IF Len(resolvedPath) > 0 /\ SubSeq(resolvedPath, 1, 1) = "/"
            THEN resolvedPath ELSE "/" \o resolvedPath
    IN normalizedBase \o normalizedPath

\* executor buildHeaders: defaults, then the non-empty header parameters,
\* then Content-Type when a body is given
buildHeaders(headerParams, defaultHeaders, body) ==
    LET kept == {k \in DOMAIN headerParams : headerParams[k] \notin {Undefined, ""}}
        overlaid == ObjectAssign(defaultHeaders, [k \in kept |-> headerParams[k]])
    IN IF body # Undefined /\ body # Null
       THEN Put(overlaid, "Content-Type",
                IF Falsy(Get(overlaid, "Content-Type")) THEN "application/json"
                ELSE overlaid["Content-Type"])
       ELSE overlaid

\* The errors the transport and the body readers throw
AbortError == [isError |-> TRUE, isDOMException |-> TRUE, name |-> "AbortError",
               message |-> "The operation was aborted."]
\* a platform whose DOMException does not inherit from Error
LegacyAbortError == [isError |-> FALSE, isDOMException |-> TRUE, name |-> "AbortError",
                     message |-> "The user aborted a request."]
FailedToFetch == [isError |-> TRUE, isDOMException |-> FALSE, name |-> "TypeError",
                  message |-> "Failed to fetch"]
FirefoxNetworkError == [isError |-> TRUE, isDOMException |-> FALSE, name |-> "TypeError",
                        message |-> "NetworkError when attempting to fetch resource."]
JsonSyntaxError == [isError |-> TRUE, isDOMException |-> FALSE, name |-> "SyntaxError",
                    message |-> "Unexpected end of JSON input"]
AbortErrors == {AbortError, LegacyAbortError}
NetworkErrors == {FailedToFetch, FirefoxNetworkError}

\* JSON.stringify of a request body value; "threw" for a value it rejects
\* (a circular structure, a BigInt)
JSONstringify(v) ==
    IF v = "<circular>" THEN "threw"
    ELSE IF v = "<object>" THEN "{\"name\":\"test\"}"
    ELSE IF v = JsZero THEN "0"
    ELSE IF v = JsFalse THEN "false"
    ELSE "\"" \o v \o "\""

\* The response bodies the server may send, and the ones that are JSON texts
BodyTexts == {"{\"ok\":true}", "Not Found", ""}
JsonTexts == {"{\"ok\":true}"}
\* response.json(): the parsed value, tagged apart from the raw text
JSONparse(text) == "json:" \o text

ContentTypes == {"application/json; charset=utf-8", "text/html", Null}
Statuses == {200, 404, 500}
\* Response.ok
ResponseOk(status) == status >= 200 /\ status <= 299

\* A variant that also reports a non-2xx status in the error field
ResponseResult_WithHttpError(resp, body, responseTimeMs) ==
    [success |-> ResponseOk(resp.status),
     response |-> <<[statusCode |-> resp.status,
                     headers |-> resp.headers,
                     body |-> body,
                     responseTimeMs |-> responseTimeMs]>>,
     error |-> IF ResponseOk(resp.status) THEN Undefined ELSE "HTTP error"]

\* executeRequest lines 222-231: the result built from a received response
ResponseResult(resp, body, responseTimeMs) ==
    [success |-> ResponseOk(resp.status),
     response |-> <<[statusCode |-> resp.status,
                     headers |-> resp.headers,
                     body |-> body,
                     responseTimeMs |-> responseTimeMs]>>,
     error |-> Undefined]

\* executeRequest lines 234-237
IsAbortError(e) ==
    \/ (e.isError /\ e.name = "AbortError")
    \/ (e.isError /\ Includes(e.message, "abort"))
    \/ (e.isDOMException /\ e.name = "AbortError")

\* executeRequest lines 232-264: the catch block
CatchResult(e, url) ==
    IF IsAbortError(e)
    THEN [success |-> FALSE, response |-> <<>>,
          error |-> "Request timeout or cancelled"]
    ELSE IF e.isError
    THEN IF Includes(e.message, "NetworkError") \/ Includes(e.message, "Failed to fetch")
         THEN [success |-> FALSE, response |-> <<>>,
               error |-> "Network error: Unable to connect to " \o url]
         ELSE [success |-> FALSE, response |-> <<>>, error |-> e.message]
    ELSE [success |-> FALSE, response |-> <<>>, error |-> "Unknown error occurred"]

\* A variant in which fetch is not given the controller's signal
FetchMayResolve_NoSignal == TRUE

\* executeRequest line 199: fetch is given controller.signal, so it delivers a
\* response only while the controller is not aborted
FetchMayResolve == ~exec.aborted

IdleCall ==
    [pc |-> "idle", api |-> "none", url |-> "", useProxy |-> FALSE, hasSignal |-> FALSE,
     headers |-> EmptyObject, body |-> Undefined,
     startTime |-> 0, timerArmed |-> FALSE, listener |-> FALSE,
     aborted |-> FALSE, abortedBy |-> "none", abortedIn |-> "none",
     extAborted |-> FALSE,
     received |-> <<>>, delivered |-> FALSE, responseTimeMs |-> 0,
     result |-> <<>>]

\* executeRequest lines 172-200: up to the await of fetch.  new URL(config.url)
\* runs before the try block, so its TypeError rejects the returned promise.
ExecuteRequestFrom(api, config, useProxy, hasSignal) ==
    IF useProxy /\ ~UrlParses(config.url)
    THEN exec' = [exec EXCEPT !.pc = "thrown", !.api = api,
                              !.url = config.url, !.useProxy = useProxy,
                              !.hasSignal = hasSignal, !.startTime = now]
    ELSE exec' = [exec EXCEPT !.pc = "fetching", !.api = api,
                              !.url = config.url, !.useProxy = useProxy,
                              !.hasSignal = hasSignal,
                              !.headers =
                                  IF useProxy
                                  THEN Put(config.headers, "X-Proxy-Target", "scheme//host")
                                  ELSE config.headers,
                              !.body = config.body,
                              !.startTime = now,
                              !.timerArmed = TRUE,
                              !.listener = hasSignal]

\* executeRequest(config, options)
ExecuteRequest(url, useProxy, hasSignal) ==
    /\ exec.pc = "idle"
    /\ ExecuteRequestFrom("executeRequest",
                          [url |-> url, headers |-> EmptyObject, body |-> Undefined],
                          useProxy, hasSignal)
    /\ UNCHANGED <<now, observed>>
    /\ UNCHANGED notExec

\* executeOperation(baseUrl, operation, params, options)
ExecuteOperation(baseUrl, paramsBody, headerParams, useProxy, hasSignal) ==
    /\ exec.pc = "idle"
    /\ IF baseUrl = "" \/ IsBlank(baseUrl)
       THEN exec' = [exec EXCEPT !.pc = "returned", !.api = "executeOperation",
                        !.result =
                            <<[success |-> FALSE, response |-> <<>>,
                               error |-> "Base URL is empty. Please configure an API URL."]>>]
       ELSE LET url == JoinBaseAndPath(baseUrl, "/items")
                headers == buildHeaders(headerParams, EmptyObject, paramsBody)
            IN IF ~Falsy(paramsBody) /\ JSONstringify(paramsBody) = "threw"
               THEN exec' = [exec EXCEPT !.pc = "thrown", !.api = "executeOperation",
                                         !.url = url]
               ELSE ExecuteRequestFrom("executeOperation",
                        [url |-> url, headers |-> headers,
                         body |-> IF Falsy(paramsBody) THEN Undefined
                                  ELSE JSONstringify(paramsBody)],
                        useProxy, hasSignal)
    /\ UNCHANGED <<now, observed>>
    /\ UNCHANGED notExec

\* The setTimeout callback: controller.abort()
TimerFires ==
    /\ exec.timerArmed
    /\ exec' = [exec EXCEPT !.timerArmed = FALSE,
                            !.aborted = TRUE,
                            !.abortedBy =
                                IF exec.aborted \/ exec.pc # "fetching"
                                THEN exec.abortedBy ELSE "timeout",
                            !.abortedIn =
                                IF exec.aborted \/ exec.pc # "fetching"
                                THEN exec.abortedIn ELSE exec.pc]
    /\ UNCHANGED <<now, observed>>
    /\ UNCHANGED notExec

\* The caller triggers the AbortController whose signal it may have passed;
\* the once-listener of line 192 aborts the call's controller
ExternalAbort ==
    /\ ~exec.extAborted
    /\ exec.pc \in {"idle", "fetching", "body"}
    /\ IF exec.listener
       THEN exec' = [exec EXCEPT !.extAborted = TRUE,
                                 !.listener = FALSE,
                                 !.aborted = TRUE,
                                 !.abortedBy =
                                     IF exec.aborted THEN exec.abortedBy ELSE "cancel",
                                 !.abortedIn =
                                     IF exec.aborted THEN exec.abortedIn
                                     ELSE exec.pc]
       ELSE exec' = [exec EXCEPT !.extAborted = TRUE]
    /\ UNCHANGED <<now, observed>>
    /\ UNCHANGED notExec

\* fetch resolves with the status line and headers: lines 202-208
FetchResolves(status, contentType) ==
    /\ exec.pc = "fetching"
    /\ FetchMayResolve
    /\ exec' = [exec EXCEPT !.pc = "body",
                            !.timerArmed = FALSE,
                            !.responseTimeMs = now - exec.startTime,
                            !.received =
                                <<[status |-> status,
                                   headers |-> IF contentType = Null THEN EmptyObject
                                               ELSE Put(EmptyObject, "content-type",
                                                        contentType)]>>]
    /\ UNCHANGED <<now, observed>>
    /\ UNCHANGED notExec

\* fetch rejects: with an abort error when the controller was aborted, else
\* with a connectivity error
FetchRejects(e) ==
    /\ exec.pc = "fetching"
    /\ e \in (IF exec.aborted THEN AbortErrors ELSE NetworkErrors)
    /\ exec' = [exec EXCEPT !.pc = "returned",
                            !.result = <<CatchResult(e, exec.url)>>]
    /\ UNCHANGED <<now, observed>>
    /\ UNCHANGED notExec

\* response.json() / response.text() settles: lines 207-231, or the catch
BodyRead(text, e) ==
    /\ exec.pc = "body"
    /\ LET resp == exec.received[1]
           contentType == IF Falsy(Get(resp.headers, "content-type")) THEN ""
                          ELSE resp.headers["content-type"]
       IN IF exec.aborted
          THEN /\ e \in AbortErrors
               /\ exec' = [exec EXCEPT !.pc = "returned",
                                       !.result = <<CatchResult(e, exec.url)>>]
          ELSE IF e \in NetworkErrors
          THEN exec' = [exec EXCEPT !.pc = "returned",
                                    !.result = <<CatchResult(e, exec.url)>>]
          ELSE /\ e = JsonSyntaxError
               /\ IF Includes(contentType, "application/json")
                  THEN IF text \in JsonTexts
                       THEN exec' = [exec EXCEPT !.pc = "returned", !.delivered = TRUE,
                                        !.result = <<ResponseResult(resp, JSONparse(text),
                                                            exec.responseTimeMs)>>]
                       ELSE exec' = [exec EXCEPT !.pc = "returned", !.delivered = TRUE,
                                        !.result = <<CatchResult(e, exec.url)>>]
                  ELSE exec' = [exec EXCEPT !.pc = "returned", !.delivered = TRUE,
                                   !.result = <<ResponseResult(resp, text,
                                                       exec.responseTimeMs)>>]
    /\ UNCHANGED <<now, observed>>
    /\ UNCHANGED notExec

\* Time passes
Tick ==
    /\ now < Epoch + MaxClock
    /\ now' = now + 1
    /\ UNCHANGED <<exec, observed>>
    /\ UNCHANGED notExec

\* The caller's await of the returned promise continues: it keeps the error
\* text of an execution that was aborted in flight, by what aborted it, and
\* the call slot is free again
Settle ==
    /\ exec.pc \in {"returned", "thrown"}
    /\ observed' =
         IF exec.pc = "returned" /\ exec.abortedBy # "none" /\ exec.result[1].response = <<>>
         THEN [observed EXCEPT ![exec.abortedBy] = exec.result[1].error]
         ELSE observed
    /\ exec' = IdleCall
    /\ UNCHANGED now
    /\ UNCHANGED notExec



ExecInit ==
    /\ exec = IdleCall
    /\ now = Epoch
    /\ observed = [cause \in {"timeout", "cancel"} |-> Undefined]

ConfigUrls == {"http://localhost:9200/items", "/items"}
BaseUrls == {"", " ", "http://localhost:9200/"}
ParamBodies == {Undefined, "<object>", "<circular>", "", JsZero, JsFalse}
HeaderParamSets == {EmptyObject, [k \in {"Content-Type"} |-> "application/xml"]}

ExecNext ==
    \/ \E url \in ConfigUrls, useProxy \in BOOLEAN, hasSignal \in BOOLEAN :
           ExecuteRequest(url, useProxy, hasSignal)
    \/ \E baseUrl \in BaseUrls, paramsBody \in ParamBodies,
          headerParams \in HeaderParamSets, useProxy \in BOOLEAN, hasSignal \in BOOLEAN :
           ExecuteOperation(baseUrl, paramsBody, headerParams, useProxy, hasSignal)
    \/ TimerFires
    \/ ExternalAbort
    \/ \E status \in Statuses, contentType \in ContentTypes :
           FetchResolves(status, contentType)
    \/ \E e \in AbortErrors \cup NetworkErrors : FetchRejects(e)
    \/ \E text \in BodyTexts,
          e \in AbortErrors \cup NetworkErrors \cup {JsonSyntaxError} : BodyRead(text, e)
    \/ Tick
    \/ Settle


\* ========================================================================
\* services/cryptoVault.ts
\* ========================================================================
\* Two callers whose vault calls may overlap
VaultOps == {"caller1", "caller2"}

MasterPasswords == {"master-1", "master-2"}
\* crypto.getRandomValues: salts and nonces, as byte sequences
Salts == {<<17>>, <<203>>}
IVs == {<<5>>, <<96>>}
\* the draws of the vault calls
VaultSalts == {<<17>>}
VaultIVs == {<<96>>}
\* Math.random().toString(36).substr(2, 9)
RandomSuffixes == {"k3j9x0a1z", "q7w2e8r5t"}

\* The credentials a user may store (Omit<DecryptedCredential, 'id'>)
ApiKeyCredential ==
    [schemaTitle |-> "Elasticsearch", name |-> "prod", baseUrl |-> "http://es:9200",
     authType |-> "apiKey", apiKey |-> "api-key-1", username |-> Undefined,
     password |-> Undefined]
\* the form leaves the unused apiKey input as the empty string
BasicCredential ==
    [schemaTitle |-> "Kibana", name |-> "dev", baseUrl |-> "http://kb:5601",
     authType |-> "basic", apiKey |-> "", username |-> "elastic",
     password |-> "changeme"]
Credentials == {ApiKeyCredential, BasicCredential}

\* The sensitive fields, in the order storeCredential inserts them
SensitiveKeys == <<"apiKey", "username", "password">>

\* Map.delete / object without a key
Remove(o, k) == [x \in DOMAIN o \ {k} |-> o[x]]

\* Array.from(Uint8Array) and new Uint8Array(number[]): element by element
ArrayFrom(bytes) == [i \in 1..Len(bytes) |-> bytes[i]]
Uint8ArrayOf(numbers) == [i \in 1..Len(numbers) |-> numbers[i] % 256]

\* A variant that derives the key from the salt alone
deriveKey_IgnoresPassword(password, salt) ==
    [algorithm |-> "PBKDF2-SHA256-100000", password |-> "", salt |-> salt]

\* deriveKey: PBKDF2 is a function of the password and the salt
deriveKey(password, salt) ==
    [algorithm |-> "PBKDF2-SHA256-100000", password |-> password, salt |-> salt]

\* JSON.stringify of a Record<string,string>: its entries in insertion order
JSONstringifyFields(data) ==
    LET entries == [i \in 1..Len(SensitiveKeys) |->
                       <<SensitiveKeys[i], Get(data, SensitiveKeys[i])>>]
    IN SelectSeq(entries, LAMBDA kv : kv[1] \in DOMAIN data)

\* JSON.parse of such a text
JSONparseFields(text) ==
    [k \in {text[i][1] : i \in DOMAIN text} |->
        text[CHOOSE i \in DOMAIN text : text[i][1] = k][2]]

\* crypto.subtle.encrypt with AES-GCM: the ciphertext opens only under the
\* same key and nonce
AesGcmEncrypt(key, iv, plaintext) ==
    [sealedWith |-> key, nonce |-> iv, plaintext |-> plaintext]

\* crypto.subtle.decrypt with AES-GCM: <<plaintext>>, or <<>> when the
\* authentication fails and it throws
AesGcmDecrypt(key, iv, ciphertext) ==
    IF key = ciphertext.sealedWith /\ iv = ciphertext.nonce
    THEN <<ciphertext.plaintext>> ELSE <<>>

\* cryptoVault.ts encrypt, with the random salt and nonce it drew
encrypt(data, password, salt, iv) ==
    [salt |-> salt, iv |-> iv,
     ciphertext |-> AesGcmEncrypt(deriveKey(password, salt), iv, JSONstringifyFields(data))]

\* A variant that returns the payload without checking the key
decrypt_Unauthenticated(encryptedData, password) ==
    [ok |-> TRUE, data |-> JSONparseFields(encryptedData.ciphertext.plaintext),
     error |-> Undefined]

\* cryptoVault.ts decrypt
decrypt(encryptedData, password) ==
    LET key == deriveKey(password, encryptedData.salt)
        plaintext == AesGcmDecrypt(key, encryptedData.iv, encryptedData.ciphertext)
    IN IF plaintext = <<>>
       THEN [ok |-> FALSE, data |-> EmptyObject, error |-> "Invalid master password"]
       ELSE [ok |-> TRUE, data |-> JSONparseFields(plaintext[1]), error |-> Undefined]

\* storeCredential lines 158-161
SensitiveData(credential) ==
    [k \in {k \in {"apiKey", "username", "password"} : ~Falsy(credential[k])} |->
        credential[k]]

\* A variant that persists the credential object itself next to the payload
StoredCredentialOf_WithPlaintext(id, credential, encrypted, createdAt) ==
    [id |-> id,
     schemaTitle |-> credential.schemaTitle,
     name |-> credential.name,
     baseUrl |-> credential.baseUrl,
     authType |-> credential.authType,
     apiKey |-> credential.apiKey,
     username |-> credential.username,
     password |-> credential.password,
     encryptedData |-> [salt |-> ArrayFrom(encrypted.salt),
                        iv |-> ArrayFrom(encrypted.iv),
                        ciphertext |-> encrypted.ciphertext],
     createdAt |-> createdAt]

\* storeCredential lines 166-178: the StoredCredential record
StoredCredentialOf(id, credential, encrypted, createdAt) ==
    [id |-> id,
     schemaTitle |-> credential.schemaTitle,
     name |-> credential.name,
     baseUrl |-> credential.baseUrl,
     authType |-> credential.authType,
     encryptedData |-> [salt |-> ArrayFrom(encrypted.salt),
                        iv |-> ArrayFrom(encrypted.iv),
                        ciphertext |-> encrypted.ciphertext],
     createdAt |-> createdAt]

\* storeCredential line 188: { ...credential, id }
CachedCredentialOf(id, credential) ==
    [id |-> id,
     schemaTitle |-> credential.schemaTitle,
     name |-> credential.name,
     baseUrl |-> credential.baseUrl,
     authType |-> credential.authType,
     apiKey |-> credential.apiKey,
     username |-> credential.username,
     password |-> credential.password]

\* getCredential lines 259-263
EncryptedDataOf(stored) ==
    [salt |-> Uint8ArrayOf(stored.encryptedData.salt),
     iv |-> Uint8ArrayOf(stored.encryptedData.iv),
     ciphertext |-> stored.encryptedData.ciphertext]

\* getCredential lines 267-276
DecryptedCredentialOf(stored, decrypted) ==
    [id |-> stored.id,
     schemaTitle |-> stored.schemaTitle,
     name |-> stored.name,
     baseUrl |-> stored.baseUrl,
     authType |-> stored.authType,
     apiKey |-> Get(decrypted, "apiKey"),
     username |-> Get(decrypted, "username"),
     password |-> Get(decrypted, "password")]

\* An id no credential was ever stored under
MissingId == [ms |-> 0, rnd |-> "missing00"]

NoResult == [kind |-> "none", via |-> "none", credential |-> <<>>, error |-> Undefined]
IdleOp ==
    [pc |-> "idle", op |-> "none", id |-> MissingId, password |-> "",
     credential |-> <<>>, encrypted |-> <<>>, stored |-> <<>>, result |-> NoResult,
     overlapped |-> FALSE]

\* Every id storeCredential can generate, and the one that is never stored
AllIds == {[ms |-> t, rnd |-> r] : t \in Epoch..(Epoch + MaxClock), r \in RandomSuffixes} \cup {MissingId}

\* The ids a caller can name: those it was given or listed, and a stale one
KnownIds == DOMAIN vaultStore \cup DOMAIN credentialCache \cup {MissingId}

InFlight(o) == vault[o].pc \notin {"idle", "done"}

\* An operation of another caller that is in flight on id (clear is on every id)
OverlapsWith(o, id) ==
    \E o2 \in VaultOps \ {o} :
        InFlight(o2) /\ (vault[o2].id = id \/ vault[o2].op = "clear")

\* History only: a deleteCredential in flight remembers that another call on
\* the same id (ids = {} stands for every id) started while it was suspended
MarkOverlap(v, o, ids) ==
    [o2 \in VaultOps |->
        IF o2 # o /\ v[o2].op = "delete" /\ v[o2].pc = "deleting"
                  /\ (ids = {} \/ v[o2].id \in ids)
        THEN [v[o2] EXCEPT !.overlapped = TRUE]
        ELSE v[o2]]

StoresInFlight == {o \in VaultOps : vault[o].op = "store" /\ vault[o].pc # "done"}

\* storeCredential lines 151-164: id, sensitive fields, encrypt is started
StoreCredential(o, credential, masterPassword, rnd, salt, iv) ==
    /\ vault[o].pc \in {"idle", "done"}
    /\ Cardinality(DOMAIN vaultStore) + Cardinality(StoresInFlight) < MaxStored
    /\ vault' = MarkOverlap([vault EXCEPT ![o] =
           [IdleOp EXCEPT !.pc = "encrypting", !.op = "store",
                          !.id = [ms |-> now, rnd |-> rnd],
                          !.password = masterPassword,
                          !.credential = <<credential>>,
                          !.encrypted = <<encrypt(SensitiveData(credential),
                                                  masterPassword, salt, iv)>>]],
                             o, {[ms |-> now, rnd |-> rnd]})
    /\ UNCHANGED <<credentialCache, vaultStore, now>>
    /\ UNCHANGED notVault

\* storeCredential lines 164-184: encrypt resolved, the record is built, the
\* database is opened and the put is requested
StoreEncrypted(o) ==
    /\ vault[o].op = "store" /\ vault[o].pc = "encrypting"
    /\ vault' = [vault EXCEPT ![o].pc = "putting",
                              ![o].stored = <<StoredCredentialOf(vault[o].id,
                                                  vault[o].credential[1],
                                                  vault[o].encrypted[1], now)>>]
    /\ UNCHANGED <<credentialCache, vaultStore, now>>
    /\ UNCHANGED notVault

\* A variant that resolves without caching the credential
StorePutSucceeds_NoCache(o) ==
    /\ vault[o].op = "store" /\ vault[o].pc = "putting"
    /\ vaultStore' = Put(vaultStore, vault[o].id, vault[o].stored[1])
    /\ credentialCache' = credentialCache
    /\ vault' = [vault EXCEPT ![o].pc = "done", ![o].password = "", ![o].credential = <<>>,
                              ![o].encrypted = <<>>, ![o].stored = <<>>,
                              ![o].result = [NoResult EXCEPT !.kind = "id"]]
    /\ UNCHANGED now
    /\ UNCHANGED notVault

\* storeCredential lines 186-190: the put succeeded
StorePutSucceeds(o) ==
    /\ vault[o].op = "store" /\ vault[o].pc = "putting"
    /\ vaultStore' = Put(vaultStore, vault[o].id, vault[o].stored[1])
    /\ credentialCache' = Put(credentialCache, vault[o].id,
                              CachedCredentialOf(vault[o].id, vault[o].credential[1]))
    /\ vault' = [vault EXCEPT ![o].pc = "done", ![o].password = "", ![o].credential = <<>>,
                              ![o].encrypted = <<>>, ![o].stored = <<>>,
                              ![o].result = [NoResult EXCEPT !.kind = "id"]]
    /\ UNCHANGED now
    /\ UNCHANGED notVault

\* storeCredential line 191: the put failed
StorePutFails(o) ==
    /\ vault[o].op = "store" /\ vault[o].pc = "putting"
    /\ vault' = [vault EXCEPT ![o].pc = "done", ![o].password = "", ![o].credential = <<>>,
                              ![o].encrypted = <<>>, ![o].stored = <<>>,
                              ![o].result = [NoResult EXCEPT !.kind = "error",
                                                             !.error = "put failed"]]
    /\ UNCHANGED <<credentialCache, vaultStore, now>>
    /\ UNCHANGED notVault

\* getCredential lines 239-252: the cache check, else the record is requested
GetCredential(o, id, masterPassword) ==
    /\ vault[o].pc \in {"idle", "done"}
    /\ id \in KnownIds
    /\ IF id \in DOMAIN credentialCache
       THEN vault' = [vault EXCEPT ![o] =
                [IdleOp EXCEPT !.pc = "done", !.op = "get", !.id = id,
                               !.result = [NoResult EXCEPT !.kind = "credential",
                                              !.via = "cache",
                                              !.credential = <<credentialCache[id]>>]]]
       ELSE vault' = MarkOverlap([vault EXCEPT ![o] =
                [IdleOp EXCEPT !.pc = "getting", !.op = "get", !.id = id,
                               !.password = masterPassword]], o, {id})
    /\ UNCHANGED <<credentialCache, vaultStore, now>>
    /\ UNCHANGED notVault

\* getCredential lines 254-265: the record arrived; null when there is none,
\* else decrypt is started
GetRecordRead(o) ==
    /\ vault[o].op = "get" /\ vault[o].pc = "getting"
    /\ IF vault[o].id \in DOMAIN vaultStore
       THEN vault' = [vault EXCEPT ![o].pc = "decrypting",
                                   ![o].stored = <<vaultStore[vault[o].id]>>]
       ELSE vault' = [vault EXCEPT ![o].pc = "done", ![o].password = "", ![o].credential = <<>>,
                              ![o].encrypted = <<>>, ![o].stored = <<>>,
                                   ![o].result = [NoResult EXCEPT !.kind = "null",
                                                                  !.via = "store"]]
    /\ UNCHANGED <<credentialCache, vaultStore, now>>
    /\ UNCHANGED notVault

\* A variant that discards the record when the password is wrong
GetDecrypted_WipesOnFailure(o) ==
    /\ vault[o].op = "get" /\ vault[o].pc = "decrypting"
    /\ LET stored == vault[o].stored[1]
           decrypted == decrypt(EncryptedDataOf(stored), vault[o].password)
           credential == DecryptedCredentialOf(stored, decrypted.data)
       IN IF decrypted.ok
          THEN /\ credentialCache' = Put(credentialCache, vault[o].id, credential)
               /\ vaultStore' = vaultStore
               /\ vault' = [vault EXCEPT ![o] =
                               [IdleOp EXCEPT !.pc = "done", !.op = "get", !.id = vault[o].id,
                                   !.result = [NoResult EXCEPT !.kind = "credential",
                                                 !.via = "decrypt",
                                                 !.credential = <<credential>>]]]
          ELSE /\ credentialCache' = credentialCache
               /\ vaultStore' = Remove(vaultStore, vault[o].id)
               /\ vault' = [vault EXCEPT ![o] =
                               [IdleOp EXCEPT !.pc = "done", !.op = "get", !.id = vault[o].id,
                                   !.result = [NoResult EXCEPT !.kind = "error",
                                                 !.via = "decrypt",
                                                 !.error = decrypted.error]]]
    /\ UNCHANGED now
    /\ UNCHANGED notVault

\* getCredential lines 265-283: decrypt settled
GetDecrypted(o) ==
    /\ vault[o].op = "get" /\ vault[o].pc = "decrypting"
    /\ LET stored == vault[o].stored[1]
           decrypted == decrypt(EncryptedDataOf(stored), vault[o].password)
           credential == DecryptedCredentialOf(stored, decrypted.data)
       IN IF decrypted.ok
          THEN /\ credentialCache' = Put(credentialCache, vault[o].id, credential)
               /\ vault' = [vault EXCEPT ![o].pc = "done", ![o].password = "", ![o].credential = <<>>,
                              ![o].encrypted = <<>>, ![o].stored = <<>>,
                               ![o].result = [NoResult EXCEPT !.kind = "credential",
                                                 !.via = "decrypt",
                                                 !.credential = <<credential>>]]
          ELSE /\ credentialCache' = credentialCache
               /\ vault' = [vault EXCEPT ![o].pc = "done", ![o].password = "", ![o].credential = <<>>,
                              ![o].encrypted = <<>>, ![o].stored = <<>>,
                               ![o].result = [NoResult EXCEPT !.kind = "error",
                                                 !.via = "decrypt",
                                                 !.error = decrypted.error]]
    /\ UNCHANGED <<vaultStore, now>>
    /\ UNCHANGED notVault

\* deleteCredential lines 292-299: the cache entry goes, the delete is requested
DeleteCredential(o, id) ==
    /\ vault[o].pc \in {"idle", "done"}
    /\ id \in KnownIds
    /\ credentialCache' = Remove(credentialCache, id)
    /\ vault' = MarkOverlap([vault EXCEPT ![o] =
                       [IdleOp EXCEPT !.pc = "deleting", !.op = "delete", !.id = id,
                                      !.overlapped = OverlapsWith(o, id)]], o, {id})
    /\ UNCHANGED <<vaultStore, now>>
    /\ UNCHANGED notVault

\* A variant whose delete request leaves the record in place
DeleteDone_KeepsRecord(o) ==
    /\ vault[o].op = "delete" /\ vault[o].pc = "deleting"
    /\ vaultStore' = vaultStore
    /\ vault' = [vault EXCEPT ![o].pc = "done", ![o].password = "", ![o].credential = <<>>,
                              ![o].encrypted = <<>>, ![o].stored = <<>>,
                              ![o].overlapped = FALSE,
                              ![o].result = [NoResult EXCEPT !.kind = "void"]]
    /\ UNCHANGED <<credentialCache, now>>
    /\ UNCHANGED notVault

\* deleteCredential line 301: the delete succeeded
DeleteDone(o) ==
    /\ vault[o].op = "delete" /\ vault[o].pc = "deleting"
    /\ vaultStore' = Remove(vaultStore, vault[o].id)
    /\ vault' = [vault EXCEPT ![o].pc = "done", ![o].password = "", ![o].credential = <<>>,
                              ![o].encrypted = <<>>, ![o].stored = <<>>,
                              ![o].overlapped = FALSE,
                              ![o].result = [NoResult EXCEPT !.kind = "void"]]
    /\ UNCHANGED <<credentialCache, now>>
    /\ UNCHANGED notVault

\* clearAllCredentials lines 309-316
ClearAllCredentials(o) ==
    /\ vault[o].pc \in {"idle", "done"}
    /\ credentialCache' = EmptyObject
    /\ vault' = MarkOverlap([vault EXCEPT ![o] =
                       [IdleOp EXCEPT !.pc = "clearing", !.op = "clear"]], o, {})
    /\ UNCHANGED <<vaultStore, now>>
    /\ UNCHANGED notVault

\* clearAllCredentials line 318
ClearDone(o) ==
    /\ vault[o].op = "clear" /\ vault[o].pc = "clearing"
    /\ vaultStore' = EmptyObject
    /\ vault' = [vault EXCEPT ![o].pc = "done", ![o].password = "", ![o].credential = <<>>,
                              ![o].encrypted = <<>>, ![o].stored = <<>>,
                              ![o].result = [NoResult EXCEPT !.kind = "void"]]
    /\ UNCHANGED <<credentialCache, now>>
    /\ UNCHANGED notVault

\* Page reload: the module-level Map is gone, calls in flight die, IndexedDB stays
Reload ==
    /\ credentialCache # EmptyObject \/ \E o \in VaultOps : vault[o].pc # "idle"
    /\ credentialCache' = EmptyObject
    /\ vault' = [o \in VaultOps |-> IdleOp]
    /\ UNCHANGED <<vaultStore, now>>
    /\ UNCHANGED notVault

VaultInit ==
    /\ credentialCache = EmptyObject
    /\ vaultStore = EmptyObject
    /\ vault = [o \in VaultOps |-> IdleOp]

VaultNext ==
    \/ \E o \in VaultOps, credential \in Credentials, masterPassword \in MasterPasswords,
          rnd \in RandomSuffixes, salt \in VaultSalts, iv \in VaultIVs :
           StoreCredential(o, credential, masterPassword, rnd, salt, iv)
    \/ \E o \in VaultOps : StoreEncrypted(o)
    \/ \E o \in VaultOps : StorePutSucceeds(o)
    \/ \E o \in VaultOps : StorePutFails(o)
    \/ \E o \in VaultOps, id \in AllIds, masterPassword \in MasterPasswords :
           GetCredential(o, id, masterPassword)
    \/ \E o \in VaultOps : GetRecordRead(o)
    \/ \E o \in VaultOps : GetDecrypted(o)
    \/ \E o \in VaultOps, id \in AllIds : DeleteCredential(o, id)
    \/ \E o \in VaultOps : DeleteDone(o)
    \/ \E o \in VaultOps : ClearAllCredentials(o)
    \/ \E o \in VaultOps : ClearDone(o)
    \/ Reload


\* ========================================================================
\* cryptoVault.ts encrypt / decrypt as a round trip
\* ========================================================================
\* Every Record<string,string> over the sensitive keys
FieldValues == {"v1", "v2"}
SensitiveFieldSets == UNION {[K -> FieldValues] : K \in SUBSET {"apiKey", "username", "password"}}

IdleCrypto ==
    [pc |-> "idle", data |-> EmptyObject, password |-> "", attempt |-> "",
     encrypted |-> <<>>, out |-> <<>>]

\* encrypt(data, password)
Encrypt(data, password, salt, iv) ==
    /\ crypto.pc \in {"idle", "decrypted"}
    /\ crypto' = [IdleCrypto EXCEPT !.pc = "encrypted", !.data = data,
                                    !.password = password,
                                    !.encrypted = <<encrypt(data, password, salt, iv)>>]
    /\ UNCHANGED notCrypto

\* decrypt(encryptedData, password)
Decrypt(password) ==
    /\ crypto.pc = "encrypted"
    /\ crypto' = [crypto EXCEPT !.pc = "decrypted", !.attempt = password,
                                !.out = <<decrypt(crypto.encrypted[1], password)>>]
    /\ UNCHANGED notCrypto

CryptoInit == crypto = IdleCrypto

CryptoNext ==
    \/ \E data \in SensitiveFieldSets, password \in MasterPasswords,
          salt \in Salts, iv \in IVs : Encrypt(data, password, salt, iv)
    \/ \E password \in MasterPasswords : Decrypt(password)

\* ========================================================================
\* JavaScript Map: entries in insertion order
\* ========================================================================
EmptyMap == <<>>
MapKeys(m) == {m[i].key : i \in 1..Len(m)}
MapHas(m, k) == k \in MapKeys(m)
\* Map.prototype.get: <<>> stands for undefined
MapGet(m, k) ==
    IF MapHas(m, k)
    THEN <<m[CHOOSE i \in 1..Len(m) : m[i].key = k].value>>
    ELSE <<>>
\* Map.prototype.set: an existing key keeps its position
MapSet(m, k, v) ==
    IF MapHas(m, k)
    THEN [i \in 1..Len(m) |-> IF m[i].key = k THEN [key |-> k, value |-> v] ELSE m[i]]
    ELSE Append(m, [key |-> k, value |-> v])
\* Map.prototype.delete
MapDelete(m, k) == SelectSeq(m, LAMBDA e : e.key # k)
\* Array.from(map.values())
MapValues(m) == [i \in 1..Len(m) |-> m[i].value]

\* ========================================================================
\* services/credentials.ts over db/database credentialsStore
\* ========================================================================
CredCallers == {"caller1", "caller2"}
CredentialNames == {"My API Key"}
CredentialTypes == {"api_key", "bearer"}
Secrets == {"secret-1", "secret-2"}

\* database generateId: `${Date.now()}-${random}`
generateId(ms, rnd) == [ms |-> ms, rnd |-> rnd]
GeneratedIds == {generateId(t, r) : t \in Epoch..(Epoch + MaxClock), r \in RandomSuffixes}
UnknownId == generateId(0, "missing00")
CallerIds == GeneratedIds \cup {UnknownId}

\* A variant of storeCredential that hands the secret to the metadata store
CredentialInput_WithSecret(name, type, secret) ==
    [name |-> name, type |-> type, secret |-> secret]

\* storeCredential line 30: the object literal { name, type }
CredentialInput(name, type, secret) == [name |-> name, type |-> type]

\* database storeCredentialMetadata lines 134-137: { ...credential, id }
NewCredential(credential, id) == Put(credential, "id", id)

\* database getCredentialMetadata
getCredentialMetadata(store, id) == MapGet(store, id)

\* database listCredentials
listCredentials(store) == MapValues(store)

\* credentials.ts getSecret: null when the key is absent
getSecret(secrets, key) ==
    IF MapGet(secrets, key) # <<>> THEN MapGet(secrets, key)[1] ELSE Null

NoCredResult ==
    [kind |-> "none", credential |-> <<>>, secret |-> Undefined, list |-> <<>>,
     deleted |-> FALSE]
IdleCred == [pc |-> "idle", op |-> "none", id |-> UnknownId, result |-> NoCredResult,
             overlapped |-> FALSE]

\* A variant that rejects when the secret is missing
getCredentialWithSecret_Throws(store, secrets, id) ==
    LET credential == getCredentialMetadata(store, id)
        secret == getSecret(secrets, id)
    IN IF credential = <<>> THEN [NoCredResult EXCEPT !.kind = "null"]
       ELSE IF secret = Null THEN [NoCredResult EXCEPT !.kind = "thrown"]
       ELSE [NoCredResult EXCEPT !.kind = "withSecret", !.credential = credential,
                                 !.secret = secret]

\* getCredentialWithSecret lines 41-52: what the promise resolves with
getCredentialWithSecret(store, secrets, id) ==
    LET credential == getCredentialMetadata(store, id)
        secret == getSecret(secrets, id)
    IN IF credential = <<>> THEN [NoCredResult EXCEPT !.kind = "null"]
       ELSE IF secret = Null THEN [NoCredResult EXCEPT !.kind = "null"]
       ELSE [NoCredResult EXCEPT !.kind = "withSecret", !.credential = credential,
                                 !.secret = secret]

\* getCredential lines 57-59
getCredential(store, id) ==
    IF getCredentialMetadata(store, id) = <<>>
    THEN [NoCredResult EXCEPT !.kind = "undefined"]
    ELSE [NoCredResult EXCEPT !.kind = "credential",
                              !.credential = getCredentialMetadata(store, id)]

\* The ids a caller can name: those it was given or listed, and a stale one
KnownCredentialIds == MapKeys(credentialsStore) \cup MapKeys(SECRET_STORE) \cup {UnknownId}

CredIdle(o) == creds[o].pc \in {"idle", "done"}

\* History only: a deleteCredential suspended at its await remembers that a
\* storeCredential generated the id it is deleting
MarkStored(c, o, id) ==
    [o2 \in CredCallers |->
        IF o2 # o /\ c[o2].op = "delete" /\ c[o2].pc = "awaiting" /\ c[o2].id = id
        THEN [c[o2] EXCEPT !.overlapped = TRUE]
        ELSE c[o2]]

\* storeCredential lines 24-33: the metadata is stored, setSecret runs up to
\* its end, and the caller is suspended at the await
CredStoreCredential(o, name, type, secret, rnd) ==
    /\ CredIdle(o)
    /\ Len(credentialsStore) < MaxCredentials
    /\ LET credential == NewCredential(CredentialInput(name, type, secret),
                                       generateId(now, rnd))
       IN /\ credentialsStore' = MapSet(credentialsStore, credential.id, credential)
          /\ SECRET_STORE' = MapSet(SECRET_STORE, credential.id, secret)
          /\ creds' = MarkStored([creds EXCEPT ![o] =
                         [IdleCred EXCEPT !.pc = "awaiting", !.op = "store",
                                          !.id = credential.id,
                                          !.result = [NoCredResult EXCEPT
                                                        !.kind = "credential",
                                                        !.credential = <<credential>>]]],
                                 o, credential.id)
    /\ UNCHANGED now
    /\ UNCHANGED notCreds

\* getCredentialWithSecret lines 41-52: both stores are read before the await
\* suspends the caller
CredGetCredentialWithSecret(o, id) ==
    /\ CredIdle(o)
    /\ id \in KnownCredentialIds
    /\ creds' = [creds EXCEPT ![o] =
                   [IdleCred EXCEPT !.pc = "awaiting", !.op = "getWithSecret", !.id = id,
                                    !.result = getCredentialWithSecret(credentialsStore,
                                                                       SECRET_STORE, id)]]
    /\ UNCHANGED <<credentialsStore, SECRET_STORE, now>>
    /\ UNCHANGED notCreds

\* storeCredential line 35 / getCredentialWithSecret: the promise settles
CredReturns(o) ==
    /\ creds[o].pc = "awaiting" /\ creds[o].op \in {"store", "getWithSecret"}
    /\ creds' = [creds EXCEPT ![o].pc = "done"]
    /\ UNCHANGED <<credentialsStore, SECRET_STORE, now>>
    /\ UNCHANGED notCreds

\* getCredential lines 57-59 (synchronous)
CredGetCredential(o, id) ==
    /\ CredIdle(o)
    /\ id \in KnownCredentialIds
    /\ creds' = [creds EXCEPT ![o] =
                   [IdleCred EXCEPT !.pc = "done", !.op = "get", !.id = id,
                                    !.result = getCredential(credentialsStore, id)]]
    /\ UNCHANGED <<credentialsStore, SECRET_STORE, now>>
    /\ UNCHANGED notCreds

\* listAllCredentials lines 72-74 (synchronous)
CredListAllCredentials(o) ==
    /\ CredIdle(o)
    /\ creds' = [creds EXCEPT ![o] =
                   [IdleCred EXCEPT !.pc = "done", !.op = "list",
                                    !.result = [NoCredResult EXCEPT !.kind = "list",
                                                  !.list = listCredentials(credentialsStore)]]]
    /\ UNCHANGED <<credentialsStore, SECRET_STORE, now>>
    /\ UNCHANGED notCreds

\* deleteCredential line 65: deleteSecret runs up to its end, the caller is
\* suspended at the await
CredDeleteCredential(o, id) ==
    /\ CredIdle(o)
    /\ id \in KnownCredentialIds
    /\ SECRET_STORE' = MapDelete(SECRET_STORE, id)
    /\ creds' = [creds EXCEPT ![o] = [IdleCred EXCEPT !.pc = "awaiting", !.op = "delete",
                                                      !.id = id]]
    /\ UNCHANGED <<credentialsStore, now>>
    /\ UNCHANGED notCreds

\* A variant that forgets the metadata of every credential
CredDeleteResumes_DropsAll(o) ==
    /\ creds[o].pc = "awaiting" /\ creds[o].op = "delete"
    /\ credentialsStore' = EmptyMap
    /\ creds' = [creds EXCEPT ![o].pc = "done", ![o].overlapped = FALSE,
                              ![o].result = [NoCredResult EXCEPT !.kind = "boolean",
                                   !.deleted = MapHas(credentialsStore, creds[o].id)]]
    /\ UNCHANGED <<SECRET_STORE, now>>
    /\ UNCHANGED notCreds

\* deleteCredential line 66: deleteCredentialMetadata after the await
CredDeleteResumes(o) ==
    /\ creds[o].pc = "awaiting" /\ creds[o].op = "delete"
    /\ credentialsStore' = MapDelete(credentialsStore, creds[o].id)
    /\ creds' = [creds EXCEPT ![o].pc = "done", ![o].overlapped = FALSE,
                              ![o].result = [NoCredResult EXCEPT !.kind = "boolean",
                                   !.deleted = MapHas(credentialsStore, creds[o].id)]]
    /\ UNCHANGED <<SECRET_STORE, now>>
    /\ UNCHANGED notCreds

\* __resetSecretStore lines 116-118: the secure storage was cleared
ResetSecretStore ==
    /\ SECRET_STORE # EmptyMap
    /\ SECRET_STORE' = EmptyMap
    /\ UNCHANGED <<credentialsStore, creds, now>>
    /\ UNCHANGED notCreds

CredsInit ==
    /\ credentialsStore = EmptyMap
    /\ SECRET_STORE = EmptyMap
    /\ creds = [o \in CredCallers |-> IdleCred]

CredsNext ==
    \/ \E o \in CredCallers, name \in CredentialNames, type \in CredentialTypes,
          secret \in Secrets, rnd \in RandomSuffixes :
           CredStoreCredential(o, name, type, secret, rnd)
    \/ \E o \in CredCallers, id \in CallerIds : CredGetCredentialWithSecret(o, id)
    \/ \E o \in CredCallers : CredReturns(o)
    \/ \E o \in CredCallers, id \in CallerIds : CredGetCredential(o, id)
    \/ \E o \in CredCallers : CredListAllCredentials(o)
    \/ \E o \in CredCallers, id \in CallerIds : CredDeleteCredential(o, id)
    \/ \E o \in CredCallers : CredDeleteResumes(o)
    \/ ResetSecretStore

\* ========================================================================
\* db/database: bookmarks
\* ========================================================================
\* Array.prototype.sort with a comparator (a, b) => key(b) - key(a): the
\* indices of keys in descending order, equal keys keeping their order
RECURSIVE SortedIndices(_, _)
SortedIndices(keys, n) ==
    IF n = 0 THEN <<>>
    ELSE LET prev == SortedIndices(keys, n - 1)
             k == Cardinality({i \in 1..(n - 1) : keys[i] >= keys[n]})
         IN SubSeq(prev, 1, k) \o <<n>> \o SubSeq(prev, k + 1, n - 1)

SortDescending(array, keys) ==
    [i \in 1..Len(array) |-> array[SortedIndices(keys, Len(array))[i]]]

\* What OperationDetail passes to createBookmark
BookmarkInputs ==
    {[name |-> op, instanceId |-> "default", operationId |-> op] : op \in {"getUser"}}

SortModes == {"created", "updated", "lastUsed", "useCount"}

\* createBookmark lines 17-23
NewBookmark(bookmark, id, ms) ==
    ObjectAssign(bookmark, [id |-> id, createdAt |-> ms, updatedAt |-> ms, useCount |-> 0])

\* (b.lastUsedAt || 0)
LastUsedAtOrZero(b) == IF "lastUsedAt" \in DOMAIN b THEN b.lastUsedAt ELSE 0

\* A variant that compares the creation times whatever the sort mode
listBookmarks_ByCreated(store, sortBy) ==
    LET bookmarks == MapValues(store)
    IN SortDescending(bookmarks, [i \in 1..Len(bookmarks) |-> bookmarks[i].createdAt])

\* listBookmarks lines 51-65
listBookmarks(store, sortBy) ==
    LET bookmarks == MapValues(store)
        keys == [i \in 1..Len(bookmarks) |->
                    CASE sortBy = "lastUsed" -> LastUsedAtOrZero(bookmarks[i])
                      [] sortBy = "useCount" -> bookmarks[i].useCount
                      [] sortBy = "updated" -> bookmarks[i].updatedAt
                      [] OTHER -> bookmarks[i].createdAt]
    IN SortDescending(bookmarks, keys)

\* A variant that adds the use to the count twice
UsedBookmark_CountsTwice(bookmark, ms) ==
    ObjectAssign(bookmark, [useCount |-> bookmark.useCount + 2, lastUsedAt |-> ms,
                            updatedAt |-> ms])

\* recordBookmarkUsage lines 70-72
UsedBookmark(bookmark, ms) ==
    ObjectAssign(bookmark, [useCount |-> bookmark.useCount + 1, lastUsedAt |-> ms,
                            updatedAt |-> ms])

NoBookmarkCall == [op |-> "none", id |-> UnknownId, list |-> <<>>, deleted |-> FALSE]

KnownBookmarkIds == MapKeys(bookmarksStore) \cup {UnknownId}

\* createBookmark lines 15-27
CreateBookmark(bookmark, rnd) ==
    /\ Len(bookmarksStore) < MaxBookmarks
    /\ LET newBookmark == NewBookmark(bookmark, generateId(now, rnd), now)
       IN /\ bookmarksStore' = MapSet(bookmarksStore, newBookmark.id, newBookmark)
          /\ bookmarkCalls' = [NoBookmarkCall EXCEPT !.op = "createBookmark",
                                                     !.id = newBookmark.id]
    /\ UNCHANGED now
    /\ UNCHANGED notBookmarks

\* recordBookmarkUsage lines 67-75
RecordBookmarkUsage(id) ==
    /\ id \in KnownBookmarkIds
    /\ LET bookmark == MapGet(bookmarksStore, id)
       IN IF bookmark # <<>>
          THEN /\ bookmark[1].useCount < MaxUsage
               /\ bookmarksStore' = MapSet(bookmarksStore, id, UsedBookmark(bookmark[1], now))
          ELSE bookmarksStore' = bookmarksStore
    /\ bookmarkCalls' = [NoBookmarkCall EXCEPT !.op = "recordBookmarkUsage", !.id = id]
    /\ UNCHANGED now
    /\ UNCHANGED notBookmarks

\* deleteBookmark lines 47-49
DeleteBookmark(id) ==
    /\ id \in KnownBookmarkIds
    /\ bookmarksStore' = MapDelete(bookmarksStore, id)
    /\ bookmarkCalls' = [NoBookmarkCall EXCEPT !.op = "deleteBookmark", !.id = id,
                                               !.deleted = MapHas(bookmarksStore, id)]
    /\ UNCHANGED now
    /\ UNCHANGED notBookmarks

\* listBookmarks lines 51-65
ListBookmarks(sortBy) ==
    /\ bookmarkCalls' = [NoBookmarkCall EXCEPT !.op = sortBy,
                                               !.list = listBookmarks(bookmarksStore, sortBy)]
    /\ UNCHANGED <<bookmarksStore, now>>
    /\ UNCHANGED notBookmarks

BookmarksInit ==
    /\ bookmarksStore = EmptyMap
    /\ bookmarkCalls = NoBookmarkCall

BookmarksNext ==
    \/ \E bookmark \in BookmarkInputs, rnd \in RandomSuffixes : CreateBookmark(bookmark, rnd)
    \/ \E id \in GeneratedIds \cup {UnknownId} : RecordBookmarkUsage(id)
    \/ \E id \in GeneratedIds \cup {UnknownId} : DeleteBookmark(id)
    \/ \E sortBy \in SortModes : ListBookmarks(sortBy)
    \/ Tick

\* What a caller may pass to updateBookmark
\* (Partial<Omit<Bookmark, 'id' | 'createdAt'>>)
BookmarkUpdates ==
    {[name |-> "renamed"], [name |-> "renamed", updatedAt |-> 0], [useCount |-> 0]}

\* updateBookmark lines 37-41: { ...existing, ...updates, updatedAt: Date.now() }
UpdatedBookmark(existing, updates, ms) ==
    ObjectAssign(ObjectAssign(existing, updates), [updatedAt |-> ms])

\* updateBookmark lines 33-45
UpdateBookmark(id, updates) ==
    /\ id \in KnownBookmarkIds
    /\ LET existing == MapGet(bookmarksStore, id)
       IN IF existing = <<>>
          THEN bookmarksStore' = bookmarksStore
          ELSE bookmarksStore' = MapSet(bookmarksStore, id,
                                        UpdatedBookmark(existing[1], updates, now))
    /\ bookmarkCalls' = [NoBookmarkCall EXCEPT !.op = "updateBookmark", !.id = id]
    /\ UNCHANGED now
    /\ UNCHANGED notBookmarks

\* The bookmark operations with updateBookmark among them
BookmarkUpdatesNext ==
    \/ \E bookmark \in BookmarkInputs, rnd \in RandomSuffixes : CreateBookmark(bookmark, rnd)
    \/ \E id \in GeneratedIds \cup {UnknownId}, updates \in BookmarkUpdates :
           UpdateBookmark(id, updates)
    \/ \E id \in GeneratedIds \cup {UnknownId} : RecordBookmarkUsage(id)
    \/ \E id \in GeneratedIds \cup {UnknownId} : DeleteBookmark(id)
    \/ \E sortBy \in SortModes : ListBookmarks(sortBy)
    \/ Tick

\* ========================================================================
\* db/database: usage history
\* ========================================================================
\* What a caller passes to recordUsage (Omit<UsageRecord, 'id' | 'timestamp'>)
\* (responseTimeMs is optional in UsageRecord)
UsageInputs ==
    {[instanceId |-> "instance-1", operationId |-> "op1", success |-> TRUE,
      responseTimeMs |-> 1],
     [instanceId |-> "instance-1", operationId |-> "op2", success |-> FALSE,
      responseTimeMs |-> 2],
     [instanceId |-> "instance-2", operationId |-> "op1", success |-> TRUE,
      responseTimeMs |-> 2],
     [instanceId |-> "instance-2", operationId |-> "op2", success |-> TRUE]}

\* recordUsage lines 82-86
NewRecord(record, id, ms) == ObjectAssign(record, [id |-> id, timestamp |-> ms])

\* The options objects a caller passes to getUsageHistory
Limits == {0, 1}
Offsets == {1, 5}
Filters == {<<<<>>, <<>>>>, <<<<"instance-1">>, <<>>>>, <<<<>>, <<"op1">>>>}
\* An optional field: <<>> when the caller leaves it out
Optional(values) == {<<>>} \cup {<<v>> : v \in values}
Field(k, opt) == IF opt = <<>> THEN EmptyObject ELSE [x \in {k} |-> opt[1]]
OptionsOf(limit, offset, instanceId, operationId) ==
    ObjectAssign(ObjectAssign(Field("limit", limit), Field("offset", offset)),
                 ObjectAssign(Field("instanceId", instanceId),
                              Field("operationId", operationId)))
HistoryOptions ==
    {OptionsOf(limit, offset, filter[1], filter[2]) :
        limit \in Optional(Limits), offset \in Optional(Offsets), filter \in Filters}

\* Array.prototype.slice(start, end) for start, end >= 0
Slice(array, start, end) ==
    LET last == IF end < Len(array) THEN end ELSE Len(array)
    IN IF start >= last THEN <<>> ELSE SubSeq(array, start + 1, last)

\* getUsageHistory lines 100-121 (SelectSeq is Array.prototype.filter)
getUsageHistory(store, options) ==
    LET all == MapValues(store)
        byInstance ==
            IF "instanceId" \in DOMAIN options /\ options.instanceId # ""
            THEN SelectSeq(all, LAMBDA r : r.instanceId = options.instanceId)
            ELSE all
        byOperation ==
            IF "operationId" \in DOMAIN options /\ options.operationId # ""
            THEN SelectSeq(byInstance, LAMBDA r : r.operationId = options.operationId)
            ELSE byInstance
        sorted == SortDescending(byOperation,
                                 [i \in 1..Len(byOperation) |-> byOperation[i].timestamp])
        total == Len(sorted)
        offset == IF "offset" \in DOMAIN options /\ options.offset # 0
                  THEN options.offset ELSE 0
        limit == IF "limit" \in DOMAIN options /\ options.limit # 0
                 THEN options.limit ELSE total
    IN [records |-> IF "offset" \in DOMAIN options \/ "limit" \in DOMAIN options
                    THEN Slice(sorted, offset, offset + limit)
                    ELSE sorted,
        total |-> total]

\* getOperationStats line 175: record.responseTimeMs || 0
ResponseTimeOrZero(record) ==
    IF "responseTimeMs" \in DOMAIN record THEN record.responseTimeMs ELSE 0

\* Math.max
MathMax(a, b) == IF a >= b THEN a ELSE b

\* Math.round(total / count) for total >= 0 and count > 0: halves round up
MathRoundQuotient(total, count) == (2 * total + count) \div (2 * count)

\* getOperationStats lines 166-181: the loop over historyStore.values()
RECURSIVE CollectStats(_, _)
CollectStats(records, stats) ==
    IF records = <<>> THEN stats
    ELSE LET record == Head(records)
             existing == MapGet(stats, record.operationId)
         IN IF ~record.success THEN CollectStats(Tail(records), stats)
            ELSE IF existing # <<>>
            THEN CollectStats(Tail(records),
                     MapSet(stats, record.operationId,
                            [count |-> existing[1].count + 1,
                             totalTime |-> existing[1].totalTime
                                              + ResponseTimeOrZero(record),
                             lastUsed |-> MathMax(existing[1].lastUsed,
                                                  record.timestamp)]))
            ELSE CollectStats(Tail(records),
                     MapSet(stats, record.operationId,
                            [count |-> 1,
                             totalTime |-> ResponseTimeOrZero(record),
                             lastUsed |-> record.timestamp]))

\* A variant of getOperationStats that truncates the average
getOperationStats_Truncates(store) ==
    LET stats == CollectStats(MapValues(store), EmptyMap)
    IN [i \in 1..Len(stats) |->
           [operationId |-> stats[i].key,
            count |-> stats[i].value.count,
            avgResponseTime |-> stats[i].value.totalTime \div stats[i].value.count,
            lastUsed |-> stats[i].value.lastUsed]]

\* getOperationStats lines 158-189
getOperationStats(store) ==
    LET stats == CollectStats(MapValues(store), EmptyMap)
    IN [i \in 1..Len(stats) |->
           [operationId |-> stats[i].key,
            count |-> stats[i].value.count,
            avgResponseTime |-> MathRoundQuotient(stats[i].value.totalTime,
                                                  stats[i].value.count),
            lastUsed |-> stats[i].value.lastUsed]]

NoHistoryCall ==
    [op |-> "none", options |-> EmptyObject, result |-> [records |-> <<>>, total |-> 0],
     stats |-> <<>>, recorded |-> 0]

\* recordUsage lines 81-90
RecordUsage(record, rnd) ==
    /\ historyCalls.recorded < MaxRecords
    /\ LET newRecord == NewRecord(record, generateId(now, rnd), now)
       IN historyStore' = MapSet(historyStore, newRecord.id, newRecord)
    /\ historyCalls' = [NoHistoryCall EXCEPT !.op = "recordUsage",
                                             !.recorded = historyCalls.recorded + 1]
    /\ UNCHANGED now
    /\ UNCHANGED notHistory

\* getUsageHistory lines 92-122
GetUsageHistory(options) ==
    /\ historyCalls' = [NoHistoryCall EXCEPT !.op = "getUsageHistory",
                                             !.options = options,
                                             !.result = getUsageHistory(historyStore, options),
                                             !.recorded = historyCalls.recorded]
    /\ UNCHANGED <<historyStore, now>>
    /\ UNCHANGED notHistory

\* getOperationStats lines 158-189
GetOperationStats ==
    /\ historyCalls' = [NoHistoryCall EXCEPT !.op = "getOperationStats",
                                             !.stats = getOperationStats(historyStore),
                                             !.recorded = historyCalls.recorded]
    /\ UNCHANGED <<historyStore, now>>
    /\ UNCHANGED notHistory

\* clearHistory lines 124-126
ClearHistory ==
    /\ historyStore # EmptyMap
    /\ historyStore' = EmptyMap
    /\ historyCalls' = [NoHistoryCall EXCEPT !.op = "clearHistory"]
    /\ UNCHANGED now
    /\ UNCHANGED notHistory

HistoryInit ==
    /\ historyStore = EmptyMap
    /\ historyCalls = NoHistoryCall

HistoryNext ==
    \/ \E record \in UsageInputs, rnd \in RandomSuffixes : RecordUsage(record, rnd)
    \/ \E options \in HistoryOptions : GetUsageHistory(options)
    \/ GetOperationStats
    \/ ClearHistory
    \/ Tick

\* ========================================================================
\* JavaScript strings, character by character
\* ========================================================================
LowerCaseLetters == "abcdefghijklmnopqrstuvwxyz"
UpperCaseLetters == "ABCDEFGHIJKLMNOPQRSTUVWXYZ"
DecimalDigits == "0123456789"
CharAt(s, i) == SubSeq(s, i, i)
Rest(s) == SubSeq(s, 2, Len(s))
Chars(s) == {CharAt(s, i) : i \in 1..Len(s)}

\* the character class [a-zA-Z0-9]
AlphanumericChars ==
    Chars(LowerCaseLetters) \cup Chars(UpperCaseLetters) \cup Chars(DecimalDigits)
IsAlphanumeric(c) == c \in AlphanumericChars

\* the upper-case and the lower-case form of each letter
UpperCaseForms == [c \in Chars(LowerCaseLetters) |->
    CharAt(UpperCaseLetters, CHOOSE i \in 1..26 : CharAt(LowerCaseLetters, i) = c)]
LowerCaseForms == [c \in Chars(UpperCaseLetters) |->
    CharAt(LowerCaseLetters, CHOOSE i \in 1..26 : CharAt(UpperCaseLetters, i) = c)]
UpperCaseOf(c) == IF c \in DOMAIN UpperCaseForms THEN UpperCaseForms[c] ELSE c
LowerCaseOf(c) == IF c \in DOMAIN LowerCaseForms THEN LowerCaseForms[c] ELSE c

\* String.prototype.toUpperCase / toLowerCase
RECURSIVE toUpperCase(_)
toUpperCase(s) == IF s = "" THEN "" ELSE UpperCaseOf(CharAt(s, 1)) \o toUpperCase(Rest(s))
RECURSIVE toLowerCase(_)
toLowerCase(s) == IF s = "" THEN "" ELSE LowerCaseOf(CharAt(s, 1)) \o toLowerCase(Rest(s))

\* String.prototype.trim: white space is stripped from both ends
WhiteSpace == {" ", "\t", "\n"}
RECURSIVE trimStart(_)
trimStart(s) ==
    IF s # "" /\ CharAt(s, 1) \in WhiteSpace THEN trimStart(Rest(s)) ELSE s
RECURSIVE trimEnd(_)
trimEnd(s) ==
    IF s # "" /\ CharAt(s, Len(s)) \in WhiteSpace
    THEN trimEnd(SubSeq(s, 1, Len(s) - 1)) ELSE s
trim(s) == trimEnd(trimStart(s))

\* Array.prototype.join(separator) of an array of strings
RECURSIVE Join(_, _)
Join(array, separator) ==
    IF array = <<>> THEN ""
    ELSE IF Len(array) = 1 THEN array[1]
    ELSE array[1] \o separator \o Join(Tail(array), separator)

\* The sequences of at most n different elements of a set
DistinctLists(S, n) ==
    {l \in UNION {[1..k -> S] : k \in 0..n} : \A i, j \in 1..Len(l) : l[i] = l[j] => i = j}

\* ========================================================================
\* services/openapi.ts
\* ========================================================================
VALID_METHODS == <<"get", "post", "put", "patch", "delete", "head", "options">>

\* ---- The parsed and dereferenced documents given to extractOperations ----
\* Parameter objects of the path-item level and of the operation level; a
\* ReferenceObject is what dereference leaves of a circular $ref
PathLevelParameters ==
    {[name |-> "id", in |-> "path", description |-> "path item"],
     [name |-> "limit", in |-> "query", description |-> "path item"],
     [x \in {"$ref"} |-> "#/components/parameters/Circular"]}
OperationLevelParameters ==
    {[name |-> "id", in |-> "path", description |-> "operation"],
     [name |-> "id", in |-> "query", description |-> "operation"],
     [name |-> "", in |-> "query", description |-> "operation"]}
\* A parameters array names a (name, in) pair at most once (OpenAPI 3,
\* Path Item Object and Operation Object: no duplicated parameters)
ParameterLists(parameters) == DistinctLists(parameters, MaxParams)

SchemaPaths == {"/user-list", "/user_list", "/users"}
\* Operation objects: without operationId, with an empty one, with a declared one
GetOperationObjects ==
    {Field("operationId", id) : id \in Optional({"", "GET__user_list"})}
PostOperationObjects == {[summary |-> "Create User", tags |-> <<"users">>]}
\* Path items; <<>> is a path whose value is null
PathItemObjects ==
    {<<>>} \cup {<<ObjectAssign(Field("get", get), Field("post", post))>> :
                    get \in Optional(GetOperationObjects),
                    post \in Optional(PostOperationObjects)}
\* doc.paths as Object.entries lists it
DocumentOf(paths, items) ==
    [paths |-> [i \in 1..Len(paths) |-> [key |-> paths[i], value |-> items[i]]]]
\* Documents that differ in their paths, methods and operationIds
OperationDocuments ==
    UNION {{DocumentOf(paths, items) : items \in [1..Len(paths) -> PathItemObjects]} :
              paths \in DistinctLists(SchemaPaths, MaxPaths)}
\* Documents that differ in the parameters of one operation
ParameterDocuments ==
    {DocumentOf(<<"/users/{id}">>,
                <<<<ObjectAssign(Field("parameters", pathParams),
                                 [get |-> Field("parameters", opParams)])>>>>) :
        pathParams \in Optional(ParameterLists(PathLevelParameters)),
        opParams \in Optional(ParameterLists(OperationLevelParameters))}
\* EmptyObject is a document without paths
Documents ==
    {EmptyObject} \cup OperationDocuments \cup ParameterDocuments
\* The queries typed into the search box
SearchQueries == {"", " ", "  ", "\t ", "user", "CREATE"}

\* ---- The functions ----
\* generateOperationId lines 127-129; the replace of /[^a-zA-Z0-9]/g
RECURSIVE ReplaceNonAlphanumerics(_)
ReplaceNonAlphanumerics(s) ==
    IF s = "" THEN ""
    ELSE (IF IsAlphanumeric(CharAt(s, 1)) THEN CharAt(s, 1) ELSE "_")
            \o ReplaceNonAlphanumerics(Rest(s))
generateOperationId(method, path) ==
    toUpperCase(method) \o "_" \o ReplaceNonAlphanumerics(path)

\* mergeParameters lines 88-89
isReference(p) == "$ref" \in DOMAIN p
\* `x || []` and `x || {}`: an array or undefined (<<>>) as an array
OrEmpty(optional) == IF optional = <<>> THEN <<>> ELSE optional[1]
\* mergeParameters lines 92-97 and 100-105: one loop over a parameters array
RECURSIVE SetParameters(_, _)
SetParameters(params, paramMap) ==
    IF params = <<>> THEN paramMap
    ELSE LET param == Head(params)
         IN SetParameters(Tail(params),
                IF isReference(param) THEN paramMap
                ELSE IF param.name # "" /\ param.in # ""
                THEN MapSet(paramMap, param.in \o ":" \o param.name, param)
                ELSE paramMap)

\* A variant of mergeParameters that lets the path-level parameter win
mergeParameters_PathLevelWins(pathParams, opParams) ==
    MapValues(SetParameters(OrEmpty(pathParams),
                            SetParameters(OrEmpty(opParams), EmptyMap)))

\* mergeParameters lines 81-108
mergeParameters(pathParams, opParams) ==
    MapValues(SetParameters(OrEmpty(opParams),
                            SetParameters(OrEmpty(pathParams), EmptyMap)))

\* A field that may be missing, as <<>> or <<value>>
OptionalField(o, k) == IF k \in DOMAIN o THEN <<o[k]>> ELSE <<>>

\* extractOperations lines 59-74: the ApiOperation pushed for one method
\* (requestBody and responses are carried over unchanged and left out)
ApiOperationOf(method, path, pathItem) ==
    LET operation == pathItem[method]
    IN [operationId |->
            IF "operationId" \in DOMAIN operation /\ operation.operationId # ""
            THEN operation.operationId
            ELSE generateOperationId(method, path),
        method |-> method,
        path |-> path,
        summary |-> OptionalField(operation, "summary"),
        description |-> OptionalField(operation, "description"),
        tags |-> OrEmpty(OptionalField(operation, "tags")),
        parameters |-> mergeParameters(OptionalField(pathItem, "parameters"),
                                       OptionalField(operation, "parameters"))]

\* extractOperations lines 52-76: the paths in Object.entries order, the
\* methods of each in VALID_METHODS order
RECURSIVE OperationsOfPaths(_)
OperationsOfPaths(entries) ==
    IF entries = <<>> THEN <<>>
    ELSE LET path == Head(entries).key
             item == Head(entries).value
             methods == IF item = <<>> THEN <<>>
                        ELSE SelectSeq(VALID_METHODS, LAMBDA m : m \in DOMAIN item[1])
         IN [k \in 1..Len(methods) |-> ApiOperationOf(methods[k], path, item[1])]
               \o OperationsOfPaths(Tail(entries))

\* extractOperations lines 48-79
extractOperations(doc) == OperationsOfPaths(OrEmpty(OptionalField(doc, "paths")))

\* loadSchema lines 20-31, for the parsed and dereferenced document (title,
\* version, baseUrl and tags are read off the document and not modelled)
loadSchema(doc) == [operations |-> extractOperations(doc), raw |-> doc]

\* searchOperations lines 144-150
Searchable(op) ==
    toLowerCase(Join(SelectSeq(<<op.operationId>> \o op.summary \o op.description
                                  \o <<op.path>> \o op.tags,
                               LAMBDA part : part # ""),
                     " "))

\* A variant of searchOperations that tests the query without trimming it
searchOperations_Untrimmed(ops, query) ==
    IF query = "" THEN ops
    ELSE SelectSeq(ops, LAMBDA op : Includes(Searchable(op), toLowerCase(query)))

\* searchOperations lines 135-154
searchOperations(ops, query) ==
    IF trim(query) = "" THEN ops
    ELSE SelectSeq(ops, LAMBDA op : Includes(Searchable(op), toLowerCase(query)))

NoOpenapiCall ==
    [op |-> "none", content |-> EmptyObject, schema |-> <<>>, query |-> "",
     found |-> <<>>]

\* loadSchema lines 12-32 on the content drawn at the start
LoadSchema ==
    /\ openapi.op = "none"
    /\ openapi' = [openapi EXCEPT !.op = "loadSchema",
                                  !.schema = <<loadSchema(openapi.content)>>]
    /\ UNCHANGED notOpenapi

\* searchOperations lines 135-154 on the operations of the loaded schema
SearchOperations(query) ==
    /\ openapi.schema # <<>>
    /\ openapi' = [openapi EXCEPT
                      !.op = "searchOperations",
                      !.query = query,
                      !.found = searchOperations(openapi.schema[1].operations, query)]
    /\ UNCHANGED notOpenapi

OpenapiInit == openapi = NoOpenapiCall

\* The documents a call may be given
OpenapiInputs == openapi \in {[NoOpenapiCall EXCEPT !.content = doc] : doc \in Documents}

OpenapiNext ==
    \/ LoadSchema
    \/ \E query \in SearchQueries : SearchOperations(query)

\* ========================================================================
\* services/executor: buildRequestUrl and buildHeaders
\* ========================================================================
\* ---- The arguments a caller passes ----
BuilderBaseUrls == {"http://h", "http://h/", "http://h//"}
PathTemplates == {"", "/u/{id}", "u/{id}", "//u", "/u/{id}/o/{oid}", "/u/{id}/f/{id}"}
\* pathParams and queryParams, as Object.entries lists them
PathParamSets ==
    {<<>>,
     <<[key |-> "id", value |-> "7"]>>,
     <<[key |-> "id", value |-> "a b/c"]>>,
     <<[key |-> "oid", value |-> "9"], [key |-> "id", value |-> "7"]>>}
QueryParamSets ==
    {<<>>,
     <<[key |-> "q", value |-> "a&b"]>>,
     <<[key |-> "empty", value |-> ""], [key |-> "n", value |-> "1"]>>}
BuilderDefaultHeaders ==
    {EmptyObject,
     [k \in {"Content-Type"} |-> "text/plain"],
     [k \in {"content-type"} |-> "text/plain"],
     [k \in {"Authorization"} |-> "Bearer token"]}
BuilderHeaderParams ==
    {EmptyObject,
     [k \in {"Content-Type"} |-> "application/xml"],
     [k \in {"Content-Type"} |-> ""],
     [k \in {"X-Trace"} |-> "1"]}
BuilderBodies == {Undefined, Null, "", "{name: test}"}

\* ---- The functions ----
\* String.prototype.indexOf, counted from 1; 0 when there is no occurrence
IndexOf(s, needle) ==
    IF Includes(s, needle)
    THEN CHOOSE i \in 1..(Len(s) - Len(needle) + 1) :
            /\ SubSeq(s, i, i + Len(needle) - 1) = needle
            /\ \A j \in 1..(i - 1) : SubSeq(s, j, j + Len(needle) - 1) # needle
    ELSE 0

\* String.prototype.replaceAll(pattern, replacement): every occurrence
RECURSIVE ReplaceAllString(_, _, _)
ReplaceAllString(s, pattern, replacement) ==
    LET i == IndexOf(s, pattern)
    IN IF i = 0 THEN s
       ELSE SubSeq(s, 1, i - 1) \o replacement
               \o ReplaceAllString(SubSeq(s, i + Len(pattern), Len(s)),
                                      pattern, replacement)

\* String.prototype.replace(pattern, replacement) with a string pattern: the
\* first occurrence only (the replacement holds no $, encodeURIComponent
\* escapes it)
ReplaceString(s, pattern, replacement) ==
    LET i == IndexOf(s, pattern)
    IN IF i = 0 THEN s
       ELSE SubSeq(s, 1, i - 1) \o replacement \o SubSeq(s, i + Len(pattern), Len(s))

\* encodeURIComponent: alphanumerics and - _ . ! ~ * ' ( ) stay, every other
\* character becomes its percent code
UnreservedMarks == {"-", "_", ".", "!", "~", "*", "'", "(", ")"}
PercentCodes ==
    [c \in {" ", "/", "&", "=", "?", "{", "}", ":", "$"} |->
        CASE c = " " -> "%20" [] c = "/" -> "%2F" [] c = "&" -> "%26"
          [] c = "=" -> "%3D" [] c = "?" -> "%3F" [] c = "{" -> "%7B"
          [] c = "}" -> "%7D" [] c = ":" -> "%3A" [] c = "$" -> "%24"]
RECURSIVE encodeURIComponent(_)
encodeURIComponent(s) ==
    IF s = "" THEN ""
    ELSE (IF IsAlphanumeric(CharAt(s, 1)) \/ CharAt(s, 1) \in UnreservedMarks
          THEN CharAt(s, 1) ELSE PercentCodes[CharAt(s, 1)])
            \o encodeURIComponent(Rest(s))

\* buildRequestUrl lines 113-116: the loop over Object.entries(pathParams)
RECURSIVE ReplacePathParameters(_, _)
ReplacePathParameters(resolvedPath, entries) ==
    IF entries = <<>> THEN resolvedPath
    ELSE ReplacePathParameters(
             ReplaceString(resolvedPath, "{" \o Head(entries).key \o "}",
                           encodeURIComponent(Head(entries).value)),
             Tail(entries))

\* buildRequestUrl lines 119-125: the query string appended to the path
AppendQuery(resolvedPath, queryParams) ==
    LET queryEntries == SelectSeq(queryParams, LAMBDA e : e.value # "")
        pairs == [i \in 1..Len(queryEntries) |->
                     encodeURIComponent(queryEntries[i].key) \o "="
                        \o encodeURIComponent(queryEntries[i].value)]
    IN IF Len(queryEntries) > 0 THEN resolvedPath \o "?" \o Join(pairs, "&")
       ELSE resolvedPath

\* buildRequestUrl lines 106-132
buildRequestUrl(baseUrl, path, pathParams, queryParams) ==
    JoinBaseAndPath(baseUrl,
                    AppendQuery(ReplacePathParameters(path, pathParams), queryParams))

NoBuilderCall == [op |-> "none"]

\* buildRequestUrl lines 106-132 on the arguments drawn at the start; the
\* record keeps resolvedPath as it is after line 116 and after line 125
BuildRequestUrl ==
    /\ builder.op = "none"
    /\ "baseUrl" \in DOMAIN builder
    /\ builder' =
          [builder EXCEPT
              !.op = "buildRequestUrl",
              !.replaced = ReplacePathParameters(builder.path, builder.pathParams),
              !.resolvedPath =
                  AppendQuery(ReplacePathParameters(builder.path, builder.pathParams),
                              builder.queryParams),
              !.url = buildRequestUrl(builder.baseUrl, builder.path,
                                      builder.pathParams, builder.queryParams)]
    /\ UNCHANGED notBuilder

\* buildHeaders lines 138-162 on the arguments drawn at the start
BuildHeaders ==
    /\ builder.op = "none"
    /\ "headerParams" \in DOMAIN builder
    /\ builder' = [builder EXCEPT
                      !.op = "buildHeaders",
                      !.headers = buildHeaders(builder.headerParams,
                                               builder.defaultHeaders, builder.body)]
    /\ UNCHANGED notBuilder

BuilderInit == builder = NoBuilderCall

\* The arguments a call may be given
BuilderInputs ==
    builder \in
        {[op |-> "none", baseUrl |-> baseUrl, path |-> path, pathParams |-> pathParams,
          queryParams |-> queryParams, replaced |-> "", resolvedPath |-> "", url |-> ""] :
            baseUrl \in BuilderBaseUrls, path \in PathTemplates,
            pathParams \in PathParamSets, queryParams \in QueryParamSets}
        \cup
        {[op |-> "none", headerParams |-> headerParams,
          defaultHeaders |-> defaultHeaders, body |-> body, headers |-> EmptyObject] :
            headerParams \in BuilderHeaderParams,
            defaultHeaders \in BuilderDefaultHeaders, body \in BuilderBodies}

BuilderNext == BuildRequestUrl \/ BuildHeaders

\* Everything but the inputs of the pure functions
SystemInit ==
    /\ AppInit /\ ExecInit /\ VaultInit /\ CryptoInit
    /\ CredsInit /\ BookmarksInit /\ HistoryInit

Init == SystemInit /\ OpenapiInit /\ BuilderInit

\* The pure functions start from the inputs they are given
InitOpenapi == SystemInit /\ OpenapiInputs /\ BuilderInit
InitBuilder == SystemInit /\ OpenapiInit /\ BuilderInputs

SpecApp == Init /\ [][AppNext]_vars

SpecExec == Init /\ [][ExecNext]_vars

\* The executor with what the platform guarantees: an armed timer fires, and
\* an aborted fetch or body read rejects.  The server owes nothing: neither
\* the response nor the end of its body.
AbortedFetchRejects == exec.aborted /\ \E e \in AbortErrors : FetchRejects(e)
AbortedBodyReadRejects ==
    exec.aborted /\ \E text \in BodyTexts, e \in AbortErrors : BodyRead(text, e)
SpecExecLive ==
    /\ Init /\ [][ExecNext]_vars
    /\ WF_vars(TimerFires)
    /\ WF_vars(AbortedFetchRejects)
    /\ WF_vars(AbortedBodyReadRejects)

SpecVault == Init /\ [][VaultNext]_vars

SpecCrypto == Init /\ [][CryptoNext]_vars

SpecCreds == Init /\ [][CredsNext]_vars

SpecBookmarks == Init /\ [][BookmarksNext]_vars
SpecBookmarkUpdates == Init /\ [][BookmarkUpdatesNext]_vars

SpecHistory == Init /\ [][HistoryNext]_vars

SpecOpenapi == InitOpenapi /\ [][OpenapiNext]_vars

SpecBuilder == InitBuilder /\ [][BuilderNext]_vars

\* ------------------------------------------------------------------------
\* C1: a load of entry A that was superseded by a later-started load of
\* entry B never writes A's result: once no load is in flight, if the
\* latest-started loadSchemaEntry delivered its schema, the state holds it.
\* ------------------------------------------------------------------------
LatestLoad(t) == load[t].ctl = abortControllerRef /\ abortControllerRef # 0

C1_StaleLoadNeverOverwrites ==
    \A t \in Loads :
        (/\ LatestLoad(t)
         /\ load[t].outcome = "written"
         /\ \A u \in Loads : load[u].pc \in {"idle", "done"})
        => schema = ParsedSchemaOf(load[t].entry)

\* ------------------------------------------------------------------------
\* C2: every returned ExecutionResult is success-with-response,
\* failure-with-response or failure-with-error: never both response and
\* error, never neither, and never success without a response.
\* ------------------------------------------------------------------------
C2_ResultShapes ==
    exec.pc = "returned" =>
        LET r == exec.result[1]
        IN \/ (r.success /\ r.response # <<>> /\ r.error = Undefined)
           \/ (~r.success /\ r.response # <<>> /\ r.error = Undefined)
           \/ (~r.success /\ r.response = <<>> /\ r.error # Undefined)

\* a non-2xx response was returned, after an execution that failed with an
\* error was observed
C2_Witness ==
    /\ exec.pc = "returned"
    /\ ~exec.result[1].success
    /\ exec.result[1].response # <<>>
    /\ observed["timeout"] # Undefined

\* ------------------------------------------------------------------------
\* C3: whenever the transport delivered a response (status, headers and
\* body) and the call was not aborted, the result carries that status, the
\* headers and the elapsed time, success is (status is 2xx), and error is
\* unset.
\* ------------------------------------------------------------------------
C3_ReceivedResponseIsReported ==
    (exec.pc = "returned" /\ exec.delivered /\ ~exec.aborted) =>
        LET r == exec.result[1]
        IN /\ r.response # <<>>
           /\ r.response[1].statusCode = exec.received[1].status
           /\ r.response[1].headers = exec.received[1].headers
           /\ r.response[1].responseTimeMs = exec.responseTimeMs
           /\ r.success = ResponseOk(exec.received[1].status)
           /\ r.error = Undefined

\* ------------------------------------------------------------------------
\* C4: executeRequest and executeOperation never throw or reject: every
\* call ends by returning an ExecutionResult.
\* ------------------------------------------------------------------------
C4_NeverThrows == exec.pc # "thrown"

\* ------------------------------------------------------------------------
\* C5: when the timeout timer or the external signal aborts the call while
\* fetch is in flight and no response was received, no response is received
\* afterwards and the call returns success=false with an error and no
\* response.
\* ------------------------------------------------------------------------
C5_AbortYieldsFailure ==
    exec.abortedIn = "fetching" =>
        /\ exec.received = <<>>
        /\ exec.pc \in {"fetching", "returned"}
        /\ exec.pc = "returned" =>
              /\ ~exec.result[1].success
              /\ exec.result[1].response = <<>>
              /\ exec.result[1].error # Undefined

\* a call cancelled in flight has returned, after a timed-out one was observed
C5_Witness ==
    /\ exec.pc = "returned"
    /\ exec.abortedIn = "fetching"
    /\ exec.abortedBy = "cancel"
    /\ observed["timeout"] # Undefined

\* ------------------------------------------------------------------------
\* C6: the error message of an execution ended by the timeout differs from
\* the error message of an execution ended by the external cancellation.
\* ------------------------------------------------------------------------
C6_TimeoutAndCancelDiffer ==
    (observed["timeout"] # Undefined /\ observed["cancel"] # Undefined)
        => observed["timeout"] # observed["cancel"]

\* ------------------------------------------------------------------------
\* C7: getCredential(id, p) for an id that is persisted and not cached: when
\* p is the master password the record was stored with, it returns the
\* decrypted credential and caches it; otherwise it fails with the one
\* invalid-password error, returns no credential and leaves the cache as
\* it was.
\* ------------------------------------------------------------------------
StoredWith(stored) == stored.encryptedData.ciphertext.sealedWith.password
StoredSecret(stored, k) ==
    LET fields == JSONparseFields(stored.encryptedData.ciphertext.plaintext)
    IN IF k \in DOMAIN fields THEN fields[k] ELSE Undefined

C7_GetCredentialByPassword ==
    [][\A o \in VaultOps :
         (vault[o].op = "get" /\ vault[o].pc = "decrypting" /\ vault'[o].pc = "done") =>
            LET stored == vault[o].stored[1]
                result == vault'[o].result
            IN IF vault[o].password = StoredWith(stored)
               THEN /\ result.kind = "credential"
                    /\ result.credential # <<>>
                    /\ result.credential[1].id = vault[o].id
                    /\ result.credential[1].name = stored.name
                    /\ \A k \in {"apiKey", "username", "password"} :
                          result.credential[1][k] = StoredSecret(stored, k)
                    /\ vault[o].id \in DOMAIN credentialCache'
                    /\ credentialCache'[vault[o].id] = result.credential[1]
               ELSE /\ result.kind = "error"
                    /\ result.error = "Invalid master password"
                    /\ result.credential = <<>>
                    /\ credentialCache' = credentialCache]_vars

\* a getCredential that had to decrypt has returned the credential and cached it
C7_Witness ==
    \E o \in VaultOps :
        /\ vault[o].op = "get" /\ vault[o].pc = "done"
        /\ vault[o].result.kind = "credential" /\ vault[o].result.via = "decrypt"
        /\ vault[o].id \in DOMAIN credentialCache
        /\ credentialCache[vault[o].id].apiKey = "api-key-1"

\* ------------------------------------------------------------------------
\* C8: decrypting the payload of encrypt(fields, p) with p returns exactly
\* fields; decrypting it with another password fails with the
\* invalid-password error and returns no data.
\* ------------------------------------------------------------------------
C8_RoundTrip ==
    crypto.pc = "decrypted" =>
        LET out == crypto.out[1]
        IN IF crypto.attempt = crypto.password
           THEN out.ok /\ out.data = crypto.data /\ out.error = Undefined
           ELSE ~out.ok /\ out.data = EmptyObject /\ out.error = "Invalid master password"

\* a payload holding two fields was decrypted with the wrong password
C8_Witness ==
    /\ crypto.pc = "decrypted"
    /\ crypto.attempt # crypto.password
    /\ Cardinality(DOMAIN crypto.data) = 2

\* ------------------------------------------------------------------------
\* C9: every persisted record consists of id, schemaTitle, name, baseUrl,
\* authType, createdAt and the encrypted payload (salt, iv, ciphertext)
\* only; no secret field value and no master password is among its
\* readable values.
\* ------------------------------------------------------------------------
StoredFields == {"id", "schemaTitle", "name", "baseUrl", "authType", "encryptedData",
                 "createdAt"}
SecretValues ==
    (MasterPasswords \cup {c[k] : c \in Credentials, k \in {"apiKey", "username", "password"}})
        \ {Undefined, ""}

C9_NoPlaintextAtRest ==
    \A id \in DOMAIN vaultStore :
        LET r == vaultStore[id]
        IN /\ DOMAIN r = StoredFields
           /\ DOMAIN r.encryptedData = {"salt", "iv", "ciphertext"}
           /\ DOMAIN r.encryptedData.ciphertext = {"sealedWith", "nonce", "plaintext"}
           /\ {r.schemaTitle, r.name, r.baseUrl, r.authType} \cap SecretValues = {}

\* a credential with an api key is persisted and its plaintext is in the cache
C9_Witness ==
    \E id \in DOMAIN vaultStore \cap DOMAIN credentialCache :
        /\ vaultStore[id].authType = "apiKey"
        /\ credentialCache[id].apiKey = "api-key-1"

\* ------------------------------------------------------------------------
\* C10: a getCredential that fails with the invalid-password error leaves
\* the persisted records and the session cache unchanged, and every
\* persisted record still decrypts under the password it was stored with.
\* ------------------------------------------------------------------------
C10_FailedGetChangesNothing ==
    /\ [][\A o \in VaultOps :
            (/\ vault[o].op = "get" /\ vault[o].pc = "decrypting"
             /\ vault'[o].pc = "done" /\ vault'[o].result.kind = "error")
            => (vaultStore' = vaultStore /\ credentialCache' = credentialCache)]_vars
    /\ [](\A o \in VaultOps :
            (vault[o].op = "get" /\ vault[o].pc = "done" /\ vault[o].result.kind = "error"
             /\ vault[o].id \in DOMAIN vaultStore)
            => LET stored == vaultStore[vault[o].id]
               IN decrypt(EncryptedDataOf(stored), StoredWith(stored)).ok)

\* a getCredential failed on a wrong password and another one, with the right
\* password, succeeded on the same id
C10_Witness ==
    \E o1, o2 \in VaultOps :
        /\ vault[o1].op = "get" /\ vault[o1].pc = "done"
        /\ vault[o1].result.kind = "error" /\ vault[o1].result.via = "decrypt"
        /\ vault[o2].op = "get" /\ vault[o2].pc = "done"
        /\ vault[o2].result.kind = "credential" /\ vault[o2].result.via = "decrypt"
        /\ vault[o1].id = vault[o2].id

\* ------------------------------------------------------------------------
\* C11: a deleteCredential(id) during which no other call on id was in
\* flight leaves, when it completes, neither a cache entry nor a persisted
\* record for id, and resolves; a getCredential that finds no cache entry
\* and no record resolves with null, not with an error, and writes
\* nothing; deleteCredential on an id that has no cache entry and no record
\* resolves and changes neither the cache nor the records.
\* ------------------------------------------------------------------------
DeleteCompletes(o) ==
    vault[o].op = "delete" /\ vault[o].pc = "deleting" /\ vault'[o].pc = "done"
DeleteStarts(o) ==
    vault[o].pc \in {"idle", "done"} /\ vault'[o].op = "delete" /\ vault'[o].pc = "deleting"
GetFindsNoRecord(o) ==
    /\ vault[o].op = "get" /\ vault[o].pc = "getting" /\ vault'[o].pc = "done"
    /\ vault[o].id \notin DOMAIN vaultStore

StoreResolves(o) ==
    /\ vault[o].op = "store" /\ vault[o].pc = "putting"
    /\ vault'[o].pc = "done" /\ vault'[o].result.kind = "id"
StoreRejects(o) ==
    /\ vault[o].op = "store" /\ vault[o].pc = "putting"
    /\ vault'[o].pc = "done" /\ vault'[o].result.kind = "error"
GetStarts(o) ==
    vault[o].pc \in {"idle", "done"} /\ vault'[o].op = "get" /\ vault'[o] # vault[o]
ClearStarts(o) ==
    vault[o].pc \in {"idle", "done"} /\ vault'[o].op = "clear" /\ vault'[o].pc = "clearing"
Reloaded == vault' = [o \in VaultOps |-> IdleOp] /\ credentialCache' = EmptyObject

C12_StoreFillsCache ==
    [][/\ \A o \in VaultOps :
            /\ StoreResolves(o) =>
                   /\ vault[o].id \in DOMAIN credentialCache'
                   /\ credentialCache'[vault[o].id]
                         = CachedCredentialOf(vault[o].id, vault[o].credential[1])
            /\ StoreRejects(o) => credentialCache' = credentialCache
            /\ (GetStarts(o) /\ vault'[o].id \in DOMAIN credentialCache) =>
                   /\ vault'[o].pc = "done"
                   /\ vault'[o].result.kind = "credential"
                   /\ vault'[o].result.via = "cache"
                   /\ vault'[o].result.credential = <<credentialCache[vault'[o].id]>>
                   /\ vaultStore' = vaultStore /\ credentialCache' = credentialCache
       /\ \A id \in DOMAIN credentialCache :
            /\ id \notin DOMAIN credentialCache' =>
                   \/ \E o \in VaultOps : DeleteStarts(o) /\ vault'[o].id = id
                   \/ \E o \in VaultOps : ClearStarts(o)
                   \/ Reloaded
            /\ (id \in DOMAIN credentialCache' /\ credentialCache'[id] # credentialCache[id]) =>
                   \E o \in VaultOps :
                       /\ vault[o].id = id /\ vault[o].op \in {"store", "get"}
                       /\ InFlight(o) /\ vault'[o].pc = "done"]_vars

\* storeCredential resolved and a getCredential on the new id was answered
\* from the cache
C12_Witness ==
    \E o1, o2 \in VaultOps :
        /\ vault[o1].op = "store" /\ vault[o1].pc = "done" /\ vault[o1].result.kind = "id"
        /\ vault[o2].op = "get" /\ vault[o2].pc = "done" /\ vault[o2].id = vault[o1].id
        /\ vault[o2].result.via = "cache"
        /\ vault[o2].result.credential = <<credentialCache[vault[o1].id]>>

\* ------------------------------------------------------------------------
\* C13: the id a storeCredential call writes under is the id of no
\* persisted record and of no cache entry, so the write replaces neither.
\* ------------------------------------------------------------------------
C13_FreshIds ==
    [][\A o \in VaultOps :
         StoreResolves(o) =>
            /\ vault[o].id \notin DOMAIN vaultStore
            /\ vault[o].id \notin DOMAIN credentialCache]_vars

\* ------------------------------------------------------------------------
\* C14: every Credential object of services/credentials (those held in the
\* metadata store, and those returned by storeCredential, getCredential,
\* getCredentialWithSecret and listAllCredentials) has the fields id, name
\* and type and no other, and none of them holds a secret; the secrets are
\* the values of the secret store.
\* ------------------------------------------------------------------------
MetadataOnly(c) ==
    /\ DOMAIN c = {"id", "name", "type"}
    /\ c.name \notin Secrets /\ c.type \notin Secrets

C14_SecretKeptApart ==
    /\ \A i \in 1..Len(credentialsStore) : MetadataOnly(credentialsStore[i].value)
    /\ \A i \in 1..Len(SECRET_STORE) : SECRET_STORE[i].value \in Secrets
    /\ \A o \in CredCallers :
          /\ creds[o].result.credential # <<>> => MetadataOnly(creds[o].result.credential[1])
          /\ \A i \in 1..Len(creds[o].result.list) : MetadataOnly(creds[o].result.list[i])

\* storeCredential has returned a credential whose secret is in the secret
\* store, and listAllCredentials has returned that credential
C14_Witness ==
    \E o1, o2 \in CredCallers :
        /\ creds[o1].op = "store" /\ creds[o1].pc = "done"
        /\ MapGet(SECRET_STORE, creds[o1].id) # <<>>
        /\ creds[o2].op = "list" /\ creds[o2].pc = "done"
        /\ \E i \in 1..Len(creds[o2].result.list) :
              creds[o2].result.list[i] = creds[o1].result.credential[1]

\* ------------------------------------------------------------------------
\* C15: for an id whose metadata exists and whose secret is missing,
\* getCredentialWithSecret resolves with null (it does not reject) and
\* getCredential returns the metadata; for an id without metadata
\* getCredential returns undefined.
\* ------------------------------------------------------------------------
CredCallStarts(o, op) ==
    CredIdle(o) /\ creds'[o].op = op /\ creds'[o] # creds[o]

C15_MissingSecretIsNotAnError ==
    [][\A o \in CredCallers :
         LET id == creds'[o].id
             hasMetadata == MapHas(credentialsStore, id)
             hasSecret == MapHas(SECRET_STORE, id)
         IN /\ (CredCallStarts(o, "getWithSecret") /\ hasMetadata /\ ~hasSecret) =>
                   /\ creds'[o].result.kind = "null"
                   /\ getCredential(credentialsStore, id).kind = "credential"
            /\ (CredCallStarts(o, "get") /\ hasMetadata) =>
                   /\ creds'[o].result.kind = "credential"
                   /\ creds'[o].result.credential = MapGet(credentialsStore, id)
            /\ (CredCallStarts(o, "get") /\ ~hasMetadata) =>
                   creds'[o].result.kind = "undefined"]_vars

\* the secret of a stored credential is gone: getCredentialWithSecret has
\* resolved with null and getCredential has returned the metadata
C15_Witness ==
    \E o1, o2 \in CredCallers :
        /\ creds[o1].op = "getWithSecret" /\ creds[o1].pc = "done"
        /\ creds[o1].result.kind = "null"
        /\ MapHas(credentialsStore, creds[o1].id) /\ ~MapHas(SECRET_STORE, creds[o1].id)
        /\ creds[o2].op = "get" /\ creds[o2].id = creds[o1].id
        /\ creds[o2].result.kind = "credential"

\* ------------------------------------------------------------------------
\* C16: when a deleteCredential(id) completes, and no storeCredential
\* generated id again while it was suspended, neither metadata nor secret
\* is left for id: getCredential(id) is undefined and
\* getCredentialWithSecret(id) is null; neither step of deleteCredential
\* changes what getCredential and getCredentialWithSecret return for any
\* other id.
\* ------------------------------------------------------------------------
CredDeleteStarts(o) ==
    CredIdle(o) /\ creds'[o].op = "delete" /\ creds'[o].pc = "awaiting"
CredDeleteCompletes(o) ==
    creds[o].op = "delete" /\ creds[o].pc = "awaiting" /\ creds'[o].pc = "done"
OthersKept(id) ==
    \A j \in (MapKeys(credentialsStore) \cup MapKeys(SECRET_STORE)) \ {id} :
        /\ getCredential(credentialsStore', j) = getCredential(credentialsStore, j)
        /\ getCredentialWithSecret(credentialsStore', SECRET_STORE', j)
             = getCredentialWithSecret(credentialsStore, SECRET_STORE, j)

BookmarkCall(op) ==
    /\ bookmarkCalls'.op = op
    /\ <<bookmarksStore, bookmarkCalls>>' # <<bookmarksStore, bookmarkCalls>>

HasRecordedUse(b) == b.useCount > 0

C19_EveryUsageIsKept == Len(historyStore) = historyCalls.recorded

\* ------------------------------------------------------------------------
\* C20: getUsageHistory returns total = the number of records matching the
\* instanceId and operationId filters, and records = the elements at
\* positions [offset, offset + limit) of the matching records ordered
\* newest first (from offset 0 when no offset is given, to the end when no
\* limit is given): at most limit records, none when offset >= total.
\* ------------------------------------------------------------------------
Matching(store, options) ==
    SelectSeq(MapValues(store),
              LAMBDA r : /\ "instanceId" \in DOMAIN options => r.instanceId = options.instanceId
                         /\ "operationId" \in DOMAIN options
                               => r.operationId = options.operationId)
NewestFirst(records) ==
    SortDescending(records, [i \in 1..Len(records) |-> records[i].timestamp])

C20_PageOfFilteredHistory ==
    historyCalls.op = "getUsageHistory" =>
        LET options == historyCalls.options
            filtered == NewestFirst(Matching(historyStore, options))
            offset == IF "offset" \in DOMAIN options THEN options.offset ELSE 0
            end == IF "limit" \in DOMAIN options THEN offset + options.limit
                   ELSE Len(filtered)
        IN /\ historyCalls.result.total = Len(filtered)
           /\ historyCalls.result.records = Slice(filtered, offset, end)
           /\ "limit" \in DOMAIN options => Len(historyCalls.result.records) <= options.limit
           /\ offset >= Len(filtered) => historyCalls.result.records = <<>>

\* ------------------------------------------------------------------------
\* C21: getUsageHistory lists the matching records newest first: of two
\* matching records, the one recorded later comes before the one recorded
\* earlier in the result of a call that gives neither limit nor offset.
\* (While no generated id was reused, the store holds the records in the
\* order in which they were recorded.)
\* ------------------------------------------------------------------------
Unpaginated(options) == "limit" \notin DOMAIN options /\ "offset" \notin DOMAIN options
PositionOf(records, id) == CHOOSE k \in 1..Len(records) : records[k].id = id

C21_LaterRecordedListedFirst ==
    (/\ historyCalls.op = "getUsageHistory"
     /\ Unpaginated(historyCalls.options)
     /\ Len(historyStore) = historyCalls.recorded)
    => LET listed == historyCalls.result.records
           matching == Matching(historyStore, historyCalls.options)
       IN /\ Len(listed) = Len(matching)
          /\ \A i, j \in 1..Len(matching) :
                i < j => PositionOf(listed, matching[j].id)
                            < PositionOf(listed, matching[i].id)

\* ------------------------------------------------------------------------
\* C22: getOperationStats returns exactly one entry for each operationId
\* that has a successful record; its count is the number of those
\* successful records, its avgResponseTime their response times' average
\* rounded to the nearest integer (halves up; a record without a response
\* time counts as 0), its lastUsed their greatest timestamp.  Failed
\* records contribute nothing, so an operationId with only failed records
\* has no entry.
\* ------------------------------------------------------------------------
SuccessesOf(store, operationId) ==
    SelectSeq(MapValues(store), LAMBDA r : r.success /\ r.operationId = operationId)
RECURSIVE TotalTime(_)
TotalTime(records) ==
    IF records = <<>> THEN 0
    ELSE ResponseTimeOrZero(Head(records)) + TotalTime(Tail(records))

C22_StatsOfSuccessfulRecords ==
    historyCalls.op = "getOperationStats" =>
        LET stats == historyCalls.stats
            records == MapValues(historyStore)
        IN /\ \A i, j \in 1..Len(stats) :
                 stats[i].operationId = stats[j].operationId => i = j
           /\ {stats[i].operationId : i \in 1..Len(stats)}
                = {records[k].operationId :
                      k \in {n \in 1..Len(records) : records[n].success}}
           /\ \A i \in 1..Len(stats) :
                 LET successes == SuccessesOf(historyStore, stats[i].operationId)
                     count == Len(successes)
                     total == TotalTime(successes)
                     avg == stats[i].avgResponseTime
                 IN /\ stats[i].count = count
                    /\ 2 * avg * count - count <= 2 * total
                    /\ 2 * total < 2 * avg * count + count
                    /\ \E k \in 1..count : successes[k].timestamp = stats[i].lastUsed
                    /\ \A k \in 1..count : successes[k].timestamp <= stats[i].lastUsed

\* the statistics of two successful calls of one operation that took 1 ms
\* and 2 ms: count 2 and average 2
C22_Witness ==
    /\ historyCalls.op = "getOperationStats"
    /\ \E i \in 1..Len(historyCalls.stats) :
          /\ historyCalls.stats[i].count = 2
          /\ historyCalls.stats[i].avgResponseTime = 2
          /\ TotalTime(SuccessesOf(historyStore, historyCalls.stats[i].operationId)) = 3

\* ------------------------------------------------------------------------
\* C23: usage records are append-only: recordUsage adds exactly one new
\* record, with a generated id and the current time as timestamp, and keeps
\* every record already stored present and unchanged; no step other than
\* clearHistory removes or changes a record.
\* ------------------------------------------------------------------------
ClearHistoryStep == historyCalls'.op = "clearHistory" /\ historyStore # EmptyMap
RecordUsageStep ==
    historyCalls'.op = "recordUsage" /\ historyCalls'.recorded = historyCalls.recorded + 1

C23_RecordsAreAppendOnly ==
    [][IF ClearHistoryStep THEN TRUE
       ELSE IF RecordUsageStep
       THEN /\ Len(historyStore') = Len(historyStore) + 1
            /\ SubSeq(historyStore', 1, Len(historyStore)) = historyStore
            /\ historyStore'[Len(historyStore')].value.timestamp = now
            /\ historyStore'[Len(historyStore')].key \in GeneratedIds
            /\ historyStore'[Len(historyStore')].key \notin MapKeys(historyStore)
       ELSE historyStore' = historyStore]_vars

\* ------------------------------------------------------------------------
\* C24: in the ParsedSchema that loadSchema returns no two operations have
\* the same operationId, the synthesized ids (METHOD_ followed by the path
\* with every non-alphanumeric character replaced by _) included.
\* ------------------------------------------------------------------------
SchemaReturned == openapi.schema # <<>>
LoadedOperations == openapi.schema[1].operations

C24_OperationIdsAreUnique ==
    SchemaReturned =>
        \A i, j \in 1..Len(LoadedOperations) :
            LoadedOperations[i].operationId = LoadedOperations[j].operationId => i = j

\* ------------------------------------------------------------------------
\* C25: the merged parameter list of every extracted operation holds at
\* most one parameter per (location, name); where a path-level and an
\* operation-level parameter share (location, name) the operation-level one
\* is kept and the path-level one is not; every resolved parameter with a
\* name and a location that occurs on one level only is kept.
\* ------------------------------------------------------------------------
Resolved(p) == ~isReference(p) /\ p.name # "" /\ p.in # ""
LocationAndName(p) == <<p.in, p.name>>
Elements(array) == {array[i] : i \in 1..Len(array)}
\* the resolved, named parameters a document gives on one level
Declared(params) == {p \in Elements(OrEmpty(params)) : Resolved(p)}
PathItemOf(doc, path) ==
    doc.paths[CHOOSE i \in 1..Len(doc.paths) : doc.paths[i].key = path].value[1]
PathLevelOf(op) ==
    Declared(OptionalField(PathItemOf(openapi.content, op.path), "parameters"))
OperationLevelOf(op) ==
    Declared(OptionalField(PathItemOf(openapi.content, op.path)[op.method], "parameters"))
Shared(p, level) == \E q \in level : LocationAndName(q) = LocationAndName(p)

C25_ParametersMergedByLocationAndName ==
    SchemaReturned =>
        \A n \in 1..Len(LoadedOperations) :
            LET op == LoadedOperations[n]
                merged == op.parameters
            IN /\ \A i, j \in 1..Len(merged) :
                     LocationAndName(merged[i]) = LocationAndName(merged[j]) => i = j
               /\ \A p \in OperationLevelOf(op) : p \in Elements(merged)
               /\ \A p \in PathLevelOf(op) :
                     IF Shared(p, OperationLevelOf(op))
                     THEN p \notin Elements(merged)
                     ELSE p \in Elements(merged)

\* an operation whose path item and operation both give the path parameter
\* id, and whose path item alone gives the query parameter limit
C25_Witness ==
    /\ SchemaReturned
    /\ \E n \in 1..Len(LoadedOperations) :
          LET op == LoadedOperations[n]
          IN /\ \E p \in PathLevelOf(op) : Shared(p, OperationLevelOf(op))
             /\ \E p \in PathLevelOf(op) : ~Shared(p, OperationLevelOf(op))
             /\ Len(op.parameters) = 2

\* ------------------------------------------------------------------------
\* C26: for a query that is empty or made of white space only,
\* searchOperations(ops, q) returns ops: the same elements in the same
\* order, none filtered out.
\* ------------------------------------------------------------------------
OnlyWhiteSpace(query) == \A i \in 1..Len(query) : CharAt(query, i) \in WhiteSpace

C26_BlankQueryReturnsAll ==
    (openapi.op = "searchOperations" /\ OnlyWhiteSpace(openapi.query))
        => openapi.found = LoadedOperations

\* a query of two blanks on a schema with several operations
C26_Witness ==
    /\ openapi.op = "searchOperations"
    /\ openapi.query = "  "
    /\ Len(LoadedOperations) >= 2
    /\ openapi.found = LoadedOperations

\* ------------------------------------------------------------------------
\* C27: buildRequestUrl replaces every occurrence of {name} in the path
\* template, for every name in pathParams and also where a placeholder
\* occurs more than once, with the percent-encoded value, and leaves the
\* placeholders without an entry in pathParams as they are.
\* ------------------------------------------------------------------------
RECURSIVE EveryPlaceholderFilled(_, _)
EveryPlaceholderFilled(path, entries) ==
    IF entries = <<>> THEN path
    ELSE EveryPlaceholderFilled(
             ReplaceAllString(path, "{" \o Head(entries).key \o "}",
                                 encodeURIComponent(Head(entries).value)),
             Tail(entries))

C27_EveryPlaceholderReplaced ==
    builder.op = "buildRequestUrl" =>
        builder.replaced = EveryPlaceholderFilled(builder.path, builder.pathParams)

\* ------------------------------------------------------------------------
\* C28: the URL buildRequestUrl returns is the base, one slash and the
\* resolved path: whatever slashes the base ends with and the path starts
\* with, the join has neither a doubled slash nor a missing one.
\* ------------------------------------------------------------------------
RECURSIVE WithoutTrailingSlashes(_)
WithoutTrailingSlashes(s) ==
    IF s # "" /\ CharAt(s, Len(s)) = "/"
    THEN WithoutTrailingSlashes(SubSeq(s, 1, Len(s) - 1)) ELSE s
RECURSIVE WithoutLeadingSlashes(_)
WithoutLeadingSlashes(s) ==
    IF s # "" /\ CharAt(s, 1) = "/" THEN WithoutLeadingSlashes(Rest(s)) ELSE s

C28_OneSeparatingSlash ==
    builder.op = "buildRequestUrl" =>
        builder.url = WithoutTrailingSlashes(builder.baseUrl) \o "/"
                         \o WithoutLeadingSlashes(builder.resolvedPath)

\* ------------------------------------------------------------------------
\* C29: buildHeaders returns at most one Content-Type header; when
\* headerParams or defaultHeaders supplied one (header names compare
\* without regard to case; an empty header parameter is not forwarded), it
\* is returned with the supplied value, headerParams before defaultHeaders;
\* otherwise Content-Type: application/json is there exactly when the body
\* is neither undefined nor null.
\* ------------------------------------------------------------------------
ContentTypeNames(headers) == {k \in DOMAIN headers : toLowerCase(k) = "content-type"}
SuppliedByParams == {k \in ContentTypeNames(builder.headerParams) :
                        builder.headerParams[k] \notin {Undefined, ""}}
SuppliedByDefaults == ContentTypeNames(builder.defaultHeaders)

C29_ContentTypeOnlyWhenMissing ==
    builder.op = "buildHeaders" =>
        LET names == ContentTypeNames(builder.headers)
        IN /\ Cardinality(names) <= 1
           /\ SuppliedByParams # {} =>
                 \A k \in names : \E p \in SuppliedByParams :
                     builder.headers[k] = builder.headerParams[p]
           /\ (SuppliedByParams = {} /\ SuppliedByDefaults # {}) =>
                 \A k \in names : \E p \in SuppliedByDefaults :
                     builder.headers[k] = builder.defaultHeaders[p]
           /\ (SuppliedByParams \cup SuppliedByDefaults) # {} => names # {}
           /\ (SuppliedByParams \cup SuppliedByDefaults) = {} =>
                 IF builder.body \notin {Undefined, Null}
                 THEN /\ names = {"Content-Type"}
                      /\ builder.headers["Content-Type"] = "application/json"
                 ELSE names = {}

\* ------------------------------------------------------------------------
\* C30: every result that carries a response has a responseTimeMs, the
\* whole number of milliseconds since the call started, and it is greater
\* than zero.
\* ------------------------------------------------------------------------
C30_ResponseTimeIsPositive ==
    (exec.result # <<>> /\ exec.result[1].response # <<>>)
        => /\ exec.result[1].response[1].responseTimeMs \in Nat
           /\ exec.result[1].response[1].responseTimeMs <= now - exec.startTime
           /\ exec.result[1].response[1].responseTimeMs > 0

\* ------------------------------------------------------------------------
\* C31: a schema load that fails (fetch, parse or dereference error) writes
\* none of schema, operations and filteredOperations: the step in which it
\* fails leaves them and the selected operation as the previously loaded
\* schema set them and sets the error indicator, and only a load that
\* delivers its schema ever changes them.
\* ------------------------------------------------------------------------
LoadFails(t) == load[t].outcome # "failed" /\ load'[t].outcome = "failed"
LoadDelivers(t) == load[t].pc = "schema" /\ load'[t].outcome = "written"

LoadInFlight(t) == load[t].pc \in {"registry", "schema"}

C38_LoadingWhileInFlight == (\E t \in Loads : LoadInFlight(t)) => isLoading

\* ------------------------------------------------------------------------
\* C32: under every interleaving of storeCredential, getCredential,
\* deleteCredential and clearAllCredentials, every id in the session cache
\* has a persisted record whenever no delete (and no clear) is in flight: a
\* getCredential(id) that was in flight while deleteCredential(id) ran
\* does not put the deleted credential back into the cache.
\* ------------------------------------------------------------------------
RemovalInFlight(o) == vault[o].pc \in {"deleting", "clearing"}

C32_CachedIdsArePersisted ==
    (\A o \in VaultOps : ~RemovalInFlight(o))
        => DOMAIN credentialCache \subseteq DOMAIN vaultStore

\* ------------------------------------------------------------------------
\* C33: a call of executeRequest with an external signal that is already
\* aborted never reports a response: it returns success = false without a
\* response, as a call whose signal is triggered just after its start does.
\* ------------------------------------------------------------------------
\* the signal was aborted before the listener of line 192 was added: the
\* listener is still waiting for an abort event that has already happened
SignalAbortedBeforeCall == exec.hasSignal /\ exec.extAborted /\ exec.listener

C33_AbortedSignalGivesNoResponse ==
    (SignalAbortedBeforeCall /\ exec.pc = "returned") =>
        /\ ~exec.result[1].success
        /\ exec.result[1].response = <<>>

\* ------------------------------------------------------------------------
\* C34: every executeRequest call eventually returns: when the server never
\* completes its response, also when it has delivered status and headers
\* and never finishes the body, the timeout timer ends the call.
\* ------------------------------------------------------------------------
C34_EveryCallReturns ==
    (exec.pc \in {"fetching", "body"}) ~> (exec.pc \in {"returned", "thrown"})

\* ------------------------------------------------------------------------
\* C37: a request made by executeOperation carries the automatically added
\* Content-Type: application/json exactly when it carries a body: for every
\* params.body (0, false and '' included) and no Content-Type among the
\* header parameters, the header is there if and only if config.body is
\* defined.
\* ------------------------------------------------------------------------
RequestMade == exec.api = "executeOperation" /\ exec.pc \in {"fetching", "body", "returned"}
                  /\ exec.url # ""
ExplicitContentTypes ==
    {hp["Content-Type"] : hp \in {h \in HeaderParamSets : "Content-Type" \in DOMAIN h}}
HasExplicitContentType ==
    "Content-Type" \in DOMAIN exec.headers
        /\ exec.headers["Content-Type"] \in ExplicitContentTypes

C37_ContentTypeIffBodySent ==
    (RequestMade /\ ~HasExplicitContentType) =>
        (("Content-Type" \in DOMAIN exec.headers
             /\ exec.headers["Content-Type"] = "application/json")
           <=> exec.body # Undefined)


\* C35: under every interleaving of storeCredential and deleteCredential, a
\* secret is present in the secret store only for an id whose metadata is
\* present in the metadata store: no orphaned secret ever exists
C35_NoOrphanedSecret ==
    \A id \in MapKeys(SECRET_STORE) : MapHas(credentialsStore, id)


\* ------------------------------------------------------------------------
\* C36: updateBookmark on an existing bookmark keeps its id and createdAt
\* and sets updatedAt to the current time, and the useCount and lastUsedAt
\* of a stored bookmark change only through recordBookmarkUsage: from its
\* creation on, the useCount of a bookmark never decreases and grows by
\* one with each usage recorded for it, in every sequence of createBookmark,
\* updateBookmark, recordBookmarkUsage and deleteBookmark.
\* ------------------------------------------------------------------------
\* the step is the createBookmark call that stores the bookmark under id
CreatedBy(id) == bookmarkCalls'.op = "createBookmark" /\ bookmarkCalls'.id = id

UsageRecordedFor(id) == bookmarkCalls'.op = "recordBookmarkUsage" /\ bookmarkCalls'.id = id

UpdatedBy(id) == bookmarkCalls'.op = "updateBookmark" /\ bookmarkCalls'.id = id

C36_UseCountCountsUsages ==
    [][\A i \in 1..Len(bookmarksStore) :
          LET id == bookmarksStore[i].key
              old == bookmarksStore[i].value
              new == MapGet(bookmarksStore', id)
          IN (new # <<>> /\ ~CreatedBy(id) /\ bookmarksStore' # bookmarksStore) =>
                /\ UpdatedBy(id) =>
                      /\ new[1].id = old.id
                      /\ new[1].createdAt = old.createdAt
                      /\ new[1].updatedAt = now
                /\ IF UsageRecordedFor(id)
                   THEN new[1].useCount = old.useCount + 1
                   ELSE /\ new[1].useCount = old.useCount
                        /\ LastUsedAtOrZero(new[1]) = LastUsedAtOrZero(old)]_vars

====
